---- MODULE Spec2Model ----
(***************************************************************************)
(* Model of the Robertson-style span optimizer of yasm-nextgen             *)
(* (src/lib/yasmx/Object.cpp, second translation unit: class Span, class   *)
(* OffsetSetter, class Optimizer and Object::Optimize).                    *)
(*                                                                         *)
(* One behaviour is one run of Object::Optimize on one input object.  The  *)
(* input (prog) is chosen in Init; every later step is a step of the       *)
(* driver: one bytecode of step 1a, one span of step 1b, the offset        *)
(* refresh of step 1c, one span of step 1d, the set-up of step 1e, one     *)
(* interval-tree callback (CheckCycle / ExpandTerm), one popped span of    *)
(* step 2, one offset-setter of the absorption walk, the refresh of step 3.*)
(*                                                                         *)
(* The bytecode contents (jump, TIMES, align, org), Bytecode::UpdateOffset *)
(* and CalcDist are not part of the sources at hand; they are modelled     *)
(* from the specification text and from the declarations in Bytecode.h.    *)
(***************************************************************************)
EXTENDS Integers, Sequences, FiniteSets, TLC

----------------------------------------------------------------------------
(* Machine words.  The program uses 64-bit (unsigned) long; the model keeps *)
(* the wrap-around but scales the width down to WordBits.                   *)

WordBits == 12

ULongMod == 2^WordBits

\* LONG_MAX: the "force to longest form" sentinel of Span::RecalcNormal.
LONG_MAX == 2^(WordBits-1) - 1

\* ~0UL: offset / index of a bytecode that was never laid out (Bytecode.h).
UNSET == ULongMod - 1

\* ULONG_MAX
ULONG_MAX == ULongMod - 1

\* unsigned long arithmetic
UAdd(a, b) == (a + b) % ULongMod

USub(a, b) == (a - b + ULongMod) % ULongMod

----------------------------------------------------------------------------
(* Bounds of the input family.                                             *)

\* data bytecodes carry 1..MaxData fixed bytes
MaxData == 2

\* a run is cut off when a bytecode tail would grow beyond MaxLen bytes
MaxLen == 24

----------------------------------------------------------------------------
(* Contents parameters (specification, section 8: a short jump of length 2 *)
(* becomes a near jump of length 5; the +-127 window is scaled down).      *)

JmpShortLen == 2

JmpLongLen == 5

JmpPosThres == 8

JmpNegThres == -6

AlignBoundary == 4

\* id of a jump's span (expand only when thresholds are crossed)
JmpSpanId == 1

\* id of a TIMES span (expand on any change)
TimesSpanId == 0

----------------------------------------------------------------------------
(* Input objects.  An object is the flattened list of the bytecodes of all *)
(* its sections; a "head" descriptor opens a section (the empty first      *)
(* bytecode every container holds).  A bytecode is referred to by its       *)
(* handle, the position in that list.                                      *)

Loc(h) == [bc |-> h, off |-> 0]

LocAt(h, o) == [bc |-> h, off |-> o]

NoVal == [hasAbs |-> FALSE, k |-> 0, terms |-> <<>>, rel |-> FALSE, cplx |-> FALSE]

\* absolute value k + (l2 - l1)
DistVal(k, l1, l2) ==
    [hasAbs |-> TRUE, k |-> k, terms |-> << [loc |-> l1, loc2 |-> l2] >>,
     rel |-> FALSE, cplx |-> FALSE]

\* absolute constant value
ConstVal(k) == [hasAbs |-> TRUE, k |-> k, terms |-> <<>>, rel |-> FALSE, cplx |-> FALSE]

\* value relative to a symbol of another section / an external symbol
RelVal == [hasAbs |-> FALSE, k |-> 0, terms |-> <<>>, rel |-> TRUE, cplx |-> FALSE]

HeadBc == [kind |-> "head", fixed |-> 0, val |-> NoVal, arg |-> 0]

Data(n) == [kind |-> "data", fixed |-> n, val |-> NoVal, arg |-> 0]

\* jump placed in bytecode h with target location t: value t - start of h
Jmp(h, t) == [kind |-> "jmp", fixed |-> 0, val |-> DistVal(0, Loc(h), t), arg |-> 0]

JmpExt == [kind |-> "jmp", fixed |-> 0, val |-> RelVal, arg |-> 0]

\* TIMES v: one byte replicated v times
Times(v) == [kind |-> "times", fixed |-> 0, val |-> v, arg |-> 1]

Align == [kind |-> "align", fixed |-> 0, val |-> NoVal, arg |-> AlignBoundary]

Org(start) == [kind |-> "org", fixed |-> 0, val |-> NoVal, arg |-> start]

\* TIMES v on an alignment: offset-setting contents with a replication count
\* (the combination the design comment rules out and nothing rejects)
TimesAlign(v) == [kind |-> "align", fixed |-> 0, val |-> v, arg |-> AlignBoundary]

----------------------------------------------------------------------------
(* Bytecode accessors.  A bytecode's mutable part is [index, offset, len]; *)
(* len is the tail length m_len, the fixed length is part of the input.    *)

\* Bytecode::getContainer
Container(p, h) == Cardinality({i \in 1..h : p[i].kind = "head"})

\* Bytecode::getTotalLen: m_fixed.size() + m_len
TotalLen(p, b, h) == p[h].fixed + b[h].len

\* Bytecode::getTailOffset
TailOffset(p, b, h) == UAdd(b[h].offset, p[h].fixed)

\* Bytecode::getNextOffset: m_offset + getTotalLen()
NextOffset(p, b, h) == UAdd(b[h].offset, TotalLen(p, b, h))

\* Bytecode::getSpecial() == SPECIAL_OFFSET
IsOffsetSetting(d) == d.kind \in {"align", "org"}

\* Location::getOffset: bytecode offset + offset within the bytecode
LocOffset(b, l) == b[l.bc].offset + l.off

\* CalcDist: loc2 - loc1, defined only inside one container
CalcDistOk(p, l1, l2) == Container(p, l1.bc) = Container(p, l2.bc)

CalcDist(b, l1, l2) == LocOffset(b, l2) - LocOffset(b, l1)

----------------------------------------------------------------------------
(* Contents: compute_initial_length and expand_for_span of the four kinds. *)

\* next multiple of the boundary at or after v
AlignUp(v, boundary) ==
    IF v % boundary = 0 THEN v ELSE (v - (v % boundary)) + boundary

IsConstVal(v) == v.hasAbs /\ v.terms = <<>> /\ ~v.rel /\ ~v.cplx

\* CalcLen(bc, add_span): the minimum tail length, the spans registered and
\* the errors recorded.  tailoff is the offset of the bytecode's tail.
CalcLen(d, tailoff) ==
    CASE d.kind = "jmp" ->
           [len |-> JmpShortLen,
            spans |-> << [id |-> JmpSpanId, val |-> d.val,
                          neg |-> JmpNegThres, pos |-> JmpPosThres] >>,
            errs |-> <<>>]
      [] d.kind = "times" ->
           IF IsConstVal(d.val)
           THEN IF d.val.k < 0
                THEN [len |-> 0, spans |-> <<>>, errs |-> << "multiple is negative" >>]
                ELSE [len |-> d.arg * d.val.k, spans |-> <<>>, errs |-> <<>>]
           ELSE [len |-> 0,
                 spans |-> << [id |-> TimesSpanId, val |-> d.val, neg |-> 0, pos |-> 0] >>,
                 errs |-> <<>>]
      [] d.kind = "align" ->
           [len |-> AlignUp(tailoff, d.arg) - tailoff,
            spans |-> IF d.val = NoVal THEN <<>>
                      ELSE << [id |-> TimesSpanId, val |-> d.val, neg |-> 0, pos |-> 0] >>,
            errs |-> <<>>]
      [] d.kind = "org" ->
           IF tailoff > d.arg
           THEN [len |-> 0, spans |-> <<>>,
                 errs |-> << "ORG overlap with already existing data" >>]
           ELSE [len |-> d.arg - tailoff, spans |-> <<>>, errs |-> <<>>]
      [] OTHER -> [len |-> 0, spans |-> <<>>, errs |-> <<>>]

\* a TIMES expand that follows its count down as well as up
ExpandTimesFollowsCount(d, len, new_val, neg, pos) ==
    IF new_val < 0
    THEN [len |-> len, still |-> FALSE, neg |-> neg, pos |-> pos,
          errs |-> << "multiple is negative" >>]
    ELSE [len |-> (d.arg * new_val) % ULongMod, still |-> TRUE,
          neg |-> neg, pos |-> pos, errs |-> <<>>]

\* expand of a TIMES bytecode: the count is the new span value.  The length
\* is never decreased ("If the resultant next bytecode offset would be less
\* than the old next bytecode offset, error.")
ExpandTimes(d, len, new_val, neg, pos) ==
    IF new_val < 0
    THEN [len |-> len, still |-> FALSE, neg |-> neg, pos |-> pos,
          errs |-> << "multiple is negative" >>]
    ELSE IF (d.arg * new_val) % ULongMod < len
    THEN [len |-> len, still |-> TRUE, neg |-> neg, pos |-> pos,
          errs |-> << "multiple decreased" >>]
    ELSE [len |-> (d.arg * new_val) % ULongMod, still |-> TRUE,
          neg |-> neg, pos |-> pos, errs |-> <<>>]

\* Expand(bc, span, old_val, new_val, &neg_thres, &pos_thres, errwarns):
\* the new tail length, whether the bytecode still depends on the span, the
\* thresholds (neg, pos are returned as given when the contents do not write
\* them) and the errors recorded.  len is the tail length before the call.
Expand(d, len, span, old_val, new_val, neg, pos) ==
    CASE d.kind = "jmp" ->
           [len |-> JmpLongLen, still |-> FALSE, neg |-> neg, pos |-> pos, errs |-> <<>>]
      [] d.kind = "times" -> ExpandTimes(d, len, new_val, neg, pos)
      [] d.kind = "align" ->
           [len |-> AlignUp(new_val, d.arg) - new_val, still |-> TRUE,
            neg |-> neg, pos |-> AlignUp(new_val, d.arg), errs |-> <<>>]
      [] d.kind = "org" ->
           IF new_val > d.arg
           THEN [len |-> len, still |-> FALSE, neg |-> neg, pos |-> pos,
                 errs |-> << "ORG overlap with already existing data" >>]
           ELSE [len |-> d.arg - new_val, still |-> TRUE, neg |-> neg, pos |-> d.arg,
                 errs |-> <<>>]
      [] OTHER ->
           [len |-> len, still |-> FALSE, neg |-> neg, pos |-> pos,
            errs |-> << "expand called on non-dependent contents" >>]

\* errors of one bytecode, tagged with its line (the bytecode's handle)
Tagged(msgs, line) == [i \in 1..Len(msgs) |-> [line |-> line, msg |-> msgs[i]]]

\* Bytecode::UpdateOffset(offset, errwarns): an offset-setting bytecode first
\* re-expands for the offset it is given; the bytecode is placed at offset
\* and the offset of the next bytecode is returned.
UpdateOffset(p, b, h, offset) ==
    LET x  == IF IsOffsetSetting(p[h])
              THEN Expand(p[h], b[h].len, 1, 0, offset, 0, NextOffset(p, b, h))
              ELSE [len |-> b[h].len, errs |-> <<>>]
        b2 == [b EXCEPT ![h].len = x.len, ![h].offset = offset]
    IN  [bcs |-> b2, next |-> NextOffset(p, b2, h), errs |-> x.errs]

\* BytecodeContainer::UpdateOffsets for the bytecodes h..Len(p): the head of
\* a container is set to offset 0, every bytecode hands its next offset on.
RECURSIVE UpdateFrom(_, _, _, _, _)
UpdateFrom(p, b, h, offset, errs) ==
    IF h > Len(p) THEN [bcs |-> b, errs |-> errs]
    ELSE LET start == IF p[h].kind = "head" THEN 0 ELSE offset
         IN  \* (u ranges over a singleton: it names the result of the call)
             CHOOSE r \in { UpdateFrom(p, u.bcs, h + 1, u.next,
                                       errs \o Tagged(u.errs, h)) :
                            u \in { UpdateOffset(p, b, h, start) } } : TRUE

\* Object::UpdateBytecodeOffsets: every section's UpdateOffsets
UpdateBytecodeOffsets(p, b, errs) == UpdateFrom(p, b, 1, 0, errs)

----------------------------------------------------------------------------
(* class Span.                                                             *)

\* Span::Span
NewSpan(h, id, val, neg, pos, os_index) ==
    [bc |-> h, id |-> id, depval |-> val, terms |-> <<>>,
     cur_val |-> 0, new_val |-> 0, neg_thres |-> neg, pos_thres |-> pos,
     active |-> "ACTIVE", backtrace |-> <<>>, os_index |-> os_index]

\* The circular-reference test of Span::CreateTerms on the unsigned indices
\* bi of the span's bytecode and i1, i2 of a term's two locations.
CircularTest(bi, i1, i2) ==
    \/ (bi > USub(i1, 1) /\ bi <= USub(i2, 1))
    \/ (bi > USub(i2, 1) /\ bi <= USub(i1, 1))

\* Span::AddTerm for every sym-sym distance SubstDist finds
SpanTerms(b, val) ==
    IF val.hasAbs
    THEN [i \in 1..Len(val.terms) |->
            [loc |-> val.terms[i].loc, loc2 |-> val.terms[i].loc2, cur_val |-> 0,
             new_val |-> CalcDist(b, val.terms[i].loc, val.terms[i].loc2)]]
    ELSE <<>>

\* Span::CreateTerms: the span with its terms, and whether it throws
\* "circular reference detected".
CreateTerms(b, s) ==
    LET ts == SpanTerms(b, s.depval)
    IN  [span |-> [s EXCEPT !.terms = ts],
         err  |-> /\ s.id <= 0
                  /\ \E i \in 1..Len(ts) :
                        CircularTest(b[s.bc].index, b[ts[i].loc.bc].index,
                                     b[ts[i].loc2.bc].index)]

RECURSIVE SumNew(_, _)
SumNew(ts, n) == IF n = 0 THEN 0 ELSE ts[n].new_val + SumNew(ts, n - 1)

\* the absolute expression with every term's new distance substituted
AbsValue(s) ==
    IF s.depval.cplx THEN LONG_MAX ELSE s.depval.k + SumNew(s.terms, Len(s.terms))

\* the state left as it is whatever the new value
ActiveUnchanged(v, active) == active

\* if (m_new_val == LONG_MAX) m_active = INACTIVE;
ActiveAfter(v, active) == IF v = LONG_MAX THEN "INACTIVE" ELSE active

\* the comparison taken to hold at the thresholds as well
AtOrOutsideThresholds(v, neg, pos) == v <= neg \/ v >= pos

\* return (m_new_val < m_neg_thres || m_new_val > m_pos_thres);
OutsideThresholds(v, neg, pos) == v < neg \/ v > pos

\* the value taken to have changed only when it grew
ValueGrew(new, cur) == new > cur

\* if (m_id <= 0) return (m_new_val != m_cur_val);
ValueChanged(new, cur) == new # cur

\* Span::RecalcNormal: the updated span and the value returned
RecalcNormal(s) ==
    LET v1 == IF s.depval.hasAbs THEN AbsValue(s) ELSE 0
        v2 == IF s.depval.rel THEN LONG_MAX ELSE v1
        s2 == [s EXCEPT !.new_val = v2, !.active = ActiveAfter(v2, s.active)]
    IN  [span |-> s2,
         fire |-> IF s.id <= 0 THEN ValueChanged(v2, s.cur_val)
                  ELSE OutsideThresholds(v2, s.neg_thres, s.pos_thres)]

----------------------------------------------------------------------------
(* class OffsetSetter and the interval tree.                               *)

\* OffsetSetter::OffsetSetter (bc = 0 is the null bytecode pointer)
NewOffsetSetter == [bc |-> 0, cur_val |-> 0, new_val |-> 0, thres |-> 0]

\* the interval begun at the lower index itself
TermIntervalFromMin(b, t) ==
    LET i1 == b[t.loc.bc].index
        i2 == b[t.loc2.bc].index
    IN  IF i1 < i2 THEN [low |-> i1, high |-> i2]
        ELSE IF i1 > i2 THEN [low |-> i2, high |-> i1]
        ELSE [low |-> 1, high |-> 0]

\* The interval Optimizer::ITreeAdd stores a term under; low > high when the
\* term is not inserted.
TermInterval(b, t) ==
    LET i1 == b[t.loc.bc].index
        i2 == b[t.loc2.bc].index
    IN  IF i1 < i2 THEN [low |-> i1 + 1, high |-> i2]
        ELSE IF i1 > i2 THEN [low |-> i2 + 1, high |-> i1]
        ELSE [low |-> 1, high |-> 0]

\* the entries ITreeAdd inserts for the terms of span sid
ITreeEntries(b, sid, s) ==
    { [low |-> TermInterval(b, s.terms[i]).low, high |-> TermInterval(b, s.terms[i]).high,
       sid |-> sid, term |-> i] :
      i \in { j \in 1..Len(s.terms) :
                TermInterval(b, s.terms[j]).low <= TermInterval(b, s.terms[j]).high } }

\* IntervalTree::Enumerate(low, high, callback): the nodes the callback is
\* called for; the order of the calls is not specified.
Enumerate(tree, low, high) == { e \in tree : e.low <= high /\ e.high >= low }

----------------------------------------------------------------------------
(* State.                                                                   *)

VARIABLES
    prog,            \* the input object (never changed by the optimizer)
    pc,              \* position of Object::Optimize
    bcs,             \* handle -> [index, offset, len] of the bytecode
    bc_index,        \* Object::Optimize: next index to hand out
    offset,          \* Object::Optimize, step 1a: running offset of the section
    cur,             \* loop position: a handle (1a) or a position in m_spans
    spans,           \* every Span ever created, by span number
    m_spans,         \* Optimizer::m_spans: the registry, a list of span numbers
    QA, QB,          \* Optimizer::m_QA, m_QB
    itree,           \* Optimizer::m_itree
    offset_setters,  \* Optimizer::m_offset_setters
    errs,            \* Errwarns: the errors recorded, each [line, msg]
    saw_error,       \* the saw_error local of the running phase
    pending,         \* nodes the running Enumerate has still to call back for
    in_enum,         \* step 1e: inside the Enumerate of span m_spans[cur]
    walk,            \* step 2: span being expanded and absorption-walk locals
    hist,            \* history of the run, see Hist
    m_symbols,       \* Object::m_symbols: the symbol list, in order
    undef_extern,    \* FinalizeSymbols: the undef_extern argument
    fs_pc,           \* position of Object::FinalizeSymbols
    sym_i,           \* FinalizeSymbols: the iterator i, a position in m_symbols
    firstundef_line, \* FinalizeSymbols: the firstundef_line local
    errwarns,        \* FinalizeSymbols: the Errwarns sink, each [line, msg, sym]
    errwarns0,       \* the sink as it was handed to FinalizeSymbols
    bytes,           \* a Bytes buffer: [data, readpos, big_endian]
    long_bytes,      \* sizeof(long) of the build: 4 or 8
    wrote,           \* the Write call on the buffer: [n, val]
    call,            \* the last Read call: [op, pos, ret, trap]
    marg,            \* a marg_ostream: [level, bol, out]
    marg_hist,       \* its use: [opened, marks], see MargInc and MargText
    rn_span,         \* a Span on which RecalcNormal is called by itself
    rn_call,         \* the last such call: [done, ret, before]
    m_bcs,           \* the bytecodes of a BytecodeContainer: [contents, m_size]
    m_last_gap,      \* its flag: the last call made or extended a gap
    gap_run          \* the append_gap calls since the last new bytecode:
                     \* [calls, sum, at, over, cast], see GapNoRun

\* the state of Object::Optimize
optvars == << prog, pc, bcs, bc_index, offset, cur, spans, m_spans, QA, QB, itree,
              offset_setters, errs, saw_error, pending, in_enum, walk, hist >>

\* the state of Object::FinalizeSymbols
symvars == << m_symbols, undef_extern, fs_pc, sym_i, firstundef_line, errwarns,
             errwarns0 >>

\* the state of a Bytes buffer and of its callers (Bytes_util.h)
bytevars == << bytes, long_bytes, wrote, call >>

\* the state of a marg_ostream and the history of its use
margvars == << marg, marg_hist >>

\* a Span taken by itself and the last RecalcNormal call on it
recvars == << rn_span, rn_call >>

\* a BytecodeContainer and the history of its append_gap calls
gapvars == << m_bcs, m_last_gap, gap_run >>

\* the state of the utilities, which Object::Optimize does not touch
utilvars == << symvars, bytevars, margvars, recvars, gapvars >>

vars == << optvars, utilvars >>

NoWalk == [sid |-> 0, os |-> 0, offset_diff |-> 0, len_diff |-> 0, in_os |-> FALSE]

N == Len(prog)

\* the phase an error is attributed to
PhaseOf(p) ==
    CASE p \in {"step1e", "cycle"} -> "step1e"
      [] p \in {"step2", "ripple", "absorb"} -> "step2"
      [] OTHER -> p

ErrPc(e2) == IF hist.err_pc = "" /\ Len(e2) > 0 THEN PhaseOf(pc) ELSE hist.err_pc

\* The history after a step that leaves the errors e2 and the bytecodes b2:
\*   err_pc  the phase in which the first error was recorded ("" if none)
\*   late    a step of step 1b or step 2 that began with an error on record
\*           has changed a bytecode's length
\*   once    the spans Expand was called for exactly once so far
\*   again   the spans Expand was called for more than once
\*   early   the spans Expand was called for in step 1b
\*   ungated an Expand call was made for a span of id > 0 whose value, as
\*           just recomputed, lay inside the span's thresholds
\*   queued  the spans step 1d has put on a queue
\*   stale   step 2 has popped a span that no longer exceeded and skipped it
\*   min     the bytecodes as step 1a laid them out (<<>> before)
\*   first   the bytecodes and errors an earlier run of Optimize on the same
\*           object returned with (<<>> in the first run)
Hist(e2, b2) ==
    [hist EXCEPT !.err_pc = ErrPc(e2),
                 !.late   = \/ hist.late
                            \/ /\ errs # <<>>
                               /\ PhaseOf(pc) \in {"step1b", "step2"}
                               /\ \E h \in 1..N : b2[h].len # bcs[h].len]

\* the history hh with the Expand call made for span s of number sid
Called(hh, sid, s) ==
    [hh EXCEPT !.once    = IF sid \in hh.once \cup hh.again THEN @ \ {sid}
                           ELSE @ \cup {sid},
               !.again   = IF sid \in hh.once \cup hh.again THEN @ \cup {sid} ELSE @,
               !.early   = IF pc = "step1b" THEN @ \cup {sid} ELSE @,
               !.ungated = \/ @
                           \/ /\ s.id > 0
                              /\ s.new_val >= s.neg_thres
                              /\ s.new_val <= s.pos_thres]

----------------------------------------------------------------------------
(* Object::Optimize: the returns between the phases.                       *)

\* if (saw_error) return;  after step 1a
AfterStep1a(saw) == IF saw THEN "done" ELSE "step1b"

\* the refresh of step 1c left out: step 1d follows step 1b
AfterStep1bNoRefresh(saw) == IF saw THEN "done" ELSE "step1d"

\* if (opt.Step1b(errwarns)) return;
AfterStep1b(saw) == IF saw THEN "done" ELSE "step1c"

\* if (errwarns.getNumErrors() > 0) return;  after step 1c
AfterStep1c(n_errors) == IF n_errors > 0 THEN "done" ELSE "step1d"

\* step 1e entered whatever step 1d queued
AfterStep1dOn(qb) == "step1e"

\* if (opt.Step1d()) return;  Step1d returns m_QB.empty()
AfterStep1d(qb) == IF qb = <<>> THEN "done" ELSE "step1e"

\* if (opt.Step1e(errwarns)) return;
AfterStep1e(saw) == IF saw THEN "done" ELSE "step2"

\* step 2 never left: the loop is entered again with both queues empty
AfterStep2Again(saw) == "step2"

\* the final refresh left out: Optimize returns right after step 2
AfterStep2NoRefresh(saw) == "done"

\* if (opt.Step2(errwarns)) return;
AfterStep2(saw) == IF saw THEN "done" ELSE "step3"

----------------------------------------------------------------------------
(* Step 1a: number the bytecodes, lay them out at minimum length.          *)

\* every span tied to the head of the offset-setter chain
OsIndexOfFirst(oss) == 0

\* Optimizer::AddSpan: m_offset_setters.size()-1, the placeholder's position
OsIndexOfPlaceholder(oss) == Len(oss) - 1

\* Optimizer::AddSpan for every span CalcLen registers
AddSpans(reqs, h, os_index) ==
    [i \in 1..Len(reqs) |->
        NewSpan(h, reqs[i].id, reqs[i].val, reqs[i].neg, reqs[i].pos, os_index)]

\* Optimizer::AddOffsetSetter
AddOffsetSetter(oss, h, next_offset) ==
    Append([oss EXCEPT ![Len(oss)].bc = h, ![Len(oss)].thres = next_offset],
           NewOffsetSetter)

\* the running offset carried over from the previous section
SectionStartCarried(running) == running

\* "unsigned long offset = 0;" at the top of each section's pass
SectionStart(running) == 0

\* the minimum size added to the tail length the bytecode already has
TailAddedTo(old, min_len) == old + min_len

\* Bytecode::calc_len stores the minimum size as the tail length m_len
TailAfterCalcLen(old, min_len) == min_len

\* the counter left as it is: every bytecode gets the same index
IndexKept(i) == i

\* setIndex(bc_index++): the index handed out next
IndexAfter(i) == i + 1

Step1aBc ==
    /\ pc = "step1a"
    /\ cur <= N
    /\ LET h == cur IN
       IF prog[h].kind = "head"
       THEN /\ bcs' = [bcs EXCEPT ![h].index = bc_index, ![h].offset = 0]
            /\ offset' = SectionStart(offset)
            /\ UNCHANGED << spans, m_spans, offset_setters, errs, saw_error, hist >>
       ELSE LET b1  == [bcs EXCEPT ![h].index = bc_index, ![h].offset = offset]
                cl  == CalcLen(prog[h], TailOffset(prog, b1, h))
                b2  == [b1 EXCEPT ![h].len = TailAfterCalcLen(b1[h].len, cl.len)]
                new == AddSpans(cl.spans, h, OsIndexOfPlaceholder(offset_setters))
                e2  == errs \o Tagged(cl.errs, h)
            IN  /\ bcs' = b2
                /\ spans' = spans \o new
                /\ m_spans' = m_spans \o [i \in 1..Len(new) |-> Len(spans) + i]
                /\ errs' = e2
                /\ hist' = Hist(e2, bcs')
                /\ IF Len(e2) > 0
                   THEN /\ saw_error' = TRUE
                        /\ UNCHANGED << offset, offset_setters >>
                   ELSE /\ saw_error' = saw_error
                        /\ offset_setters' =
                              IF IsOffsetSetting(prog[h])
                              THEN AddOffsetSetter(offset_setters, h, NextOffset(prog, b2, h))
                              ELSE offset_setters
                        /\ offset' = NextOffset(prog, b2, h)
    /\ bc_index' = IndexAfter(bc_index)
    /\ cur' = cur + 1
    /\ UNCHANGED << prog, pc, QA, QB, itree, pending, in_enum, walk >>
    /\ UNCHANGED utilvars

Step1aEnd ==
    /\ pc = "step1a"
    /\ cur > N
    /\ pc' = AfterStep1a(saw_error)
    /\ cur' = 1
    /\ saw_error' = FALSE
    /\ hist' = [hist EXCEPT !.min = bcs]
    /\ UNCHANGED << prog, bcs, bc_index, offset, spans, m_spans, QA, QB, itree,
                    offset_setters, errs, pending, in_enum, walk >>
    /\ UNCHANGED utilvars

----------------------------------------------------------------------------
(* Step 1b: create the terms, expand what is certainly long.               *)

\* the span left in the registry
RemoveNone(q, i) == q

\* delete *spani; spani = m_spans.erase(spani);
RemoveAt(q, i) == SubSeq(q, 1, i - 1) \o SubSeq(q, i + 1, Len(q))

\* the loop left at once after the secondary-expansion error
Step1bStopAfterSecondary(i, n) == n + 1

\* What the loop of Optimizer::Step1b does after the secondary-expansion
\* error was recorded for the span at position i: it goes on to the next
\* span (the position the loop continues at).
Step1bNextAfterSecondary(i, n) == i + 1

Step1bSpan ==
    /\ pc = "step1b"
    /\ cur <= Len(m_spans)
    /\ \E sid \in {m_spans[cur]} :
       \E ct \in {CreateTerms(bcs, spans[sid])} :
       \E rn \in {RecalcNormal(ct.span)} :
       \E s1 \in {IF ct.err THEN ct.span ELSE rn.span} :
       \E x \in {Expand(prog[s1.bc], bcs[s1.bc].len, s1.id, s1.cur_val, s1.new_val,
                        s1.neg_thres, s1.pos_thres)} :
       LET e1    == IF ct.err
                    THEN Append(errs, [line |-> ct.span.bc,
                                       msg |-> "circular reference detected"])
                    ELSE errs
           do    == ~ct.err /\ rn.fire
           e2    == IF do THEN e1 \o Tagged(x.errs, s1.bc) ELSE e1
           s2    == IF do THEN [s1 EXCEPT !.neg_thres = x.neg, !.pos_thres = x.pos]
                    ELSE s1
           any   == Len(e2) > 0
           del   == do /\ ~any /\ ~x.still
           sec   == do /\ ~any /\ x.still /\ s2.active = "INACTIVE"
           e3    == IF sec
                    THEN Append(e2, [line |-> s2.bc,
                            msg |-> "secondary expansion of an external/complex value"])
                    ELSE e2
       IN  /\ bcs' = IF do THEN [bcs EXCEPT ![s1.bc].len = x.len] ELSE bcs
           /\ errs' = e3
           /\ hist' = IF do THEN Called(Hist(e3, bcs'), sid, s1) ELSE Hist(e3, bcs')
           /\ saw_error' = (saw_error \/ ct.err \/ (do /\ any) \/ sec)
           /\ IF del
              THEN /\ m_spans' = RemoveAt(m_spans, cur)
                   /\ spans' = [spans EXCEPT ![sid] = s2]
                   /\ cur' = cur
              ELSE /\ m_spans' = m_spans
                   /\ spans' = [spans EXCEPT ![sid] = [s2 EXCEPT !.cur_val = s2.new_val]]
                   /\ cur' = IF sec THEN Step1bNextAfterSecondary(cur, Len(m_spans))
                             ELSE cur + 1
    /\ UNCHANGED << prog, pc, bc_index, offset, QA, QB, itree, offset_setters,
                    pending, in_enum, walk >>
    /\ UNCHANGED utilvars

Step1bEnd ==
    /\ pc = "step1b"
    /\ cur > Len(m_spans)
    /\ pc' = AfterStep1b(saw_error)
    /\ cur' = 1
    /\ saw_error' = FALSE
    /\ UNCHANGED << prog, bcs, bc_index, offset, spans, m_spans, QA, QB, itree,
                    offset_setters, errs, pending, in_enum, walk, hist >>
    /\ UNCHANGED utilvars

----------------------------------------------------------------------------
(* Step 1c: refresh the offsets.                                           *)

Step1c ==
    /\ pc = "step1c"
    /\ LET u == UpdateBytecodeOffsets(prog, bcs, errs)
       IN  /\ bcs' = u.bcs
           /\ errs' = u.errs
           /\ hist' = Hist(u.errs, bcs')
           /\ pc' = AfterStep1c(Len(u.errs))
    /\ cur' = 1
    /\ UNCHANGED << prog, bc_index, offset, spans, m_spans, QA, QB, itree,
                    offset_setters, saw_error, pending, in_enum, walk >>
    /\ UNCHANGED utilvars

----------------------------------------------------------------------------
(* Step 1d: re-evaluate the surviving spans against the new offsets.       *)

\* the terms of a span refreshed from the live locations
RefreshTerms(b, ts) ==
    [i \in 1..Len(ts) |->
        [ts[i] EXCEPT !.cur_val = ts[i].new_val,
                      !.new_val = CalcDist(b, ts[i].loc, ts[i].loc2)]]

\* the queue Step1d puts a span on that exceeded its thresholds
Step1dQueue(id) == "QB"

Step1dSpan ==
    /\ pc = "step1d"
    /\ cur <= Len(m_spans)
    /\ LET sid == m_spans[cur]
           s1  == [spans[sid] EXCEPT !.terms = RefreshTerms(bcs, spans[sid].terms)]
           rn  == RecalcNormal(s1)
       IN  IF rn.fire
           THEN /\ spans' = [spans EXCEPT ![sid] = [rn.span EXCEPT !.active = "ON_Q"]]
                /\ QB' = IF Step1dQueue(s1.id) = "QB" THEN Append(QB, sid) ELSE QB
                /\ QA' = IF Step1dQueue(s1.id) = "QA" THEN Append(QA, sid) ELSE QA
                /\ hist' = [hist EXCEPT !.queued = @ \cup {sid}]
           ELSE /\ spans' = [spans EXCEPT ![sid] = rn.span]
                /\ UNCHANGED << QA, QB, hist >>
    /\ cur' = cur + 1
    /\ UNCHANGED << prog, pc, bcs, bc_index, offset, m_spans, itree, offset_setters,
                    errs, saw_error, pending, in_enum, walk >>
    /\ UNCHANGED utilvars

Step1dEnd ==
    /\ pc = "step1d"
    /\ cur > Len(m_spans)
    /\ pc' = AfterStep1d(QB)
    /\ cur' = 1
    /\ UNCHANGED << prog, bcs, bc_index, offset, spans, m_spans, QA, QB, itree,
                    offset_setters, errs, saw_error, pending, in_enum, walk, hist >>
    /\ UNCHANGED utilvars

----------------------------------------------------------------------------
(* Step 1e: offset-setter values, interval tree, cycle check.              *)

\* the offset-setters left with the values they were registered with
OffsetSettersAsRegistered(p, b, oss) == oss

\* "Update offset-setters values": every setter that has a bytecode
UpdateOffsetSetters(p, b, oss) ==
    [i \in 1..Len(oss) |->
        IF oss[i].bc = 0 THEN oss[i]
        ELSE [oss[i] EXCEPT !.thres = NextOffset(p, b, oss[i].bc),
                            !.new_val = b[oss[i].bc].offset,
                            !.cur_val = b[oss[i].bc].offset]]

\* "Build up interval tree": ITreeAdd for every term of every registered span
BuildITree(b, sp, reg) ==
    UNION { ITreeEntries(b, reg[i], sp[reg[i]]) : i \in 1..Len(reg) }

Step1eInit ==
    /\ pc = "step1e"
    /\ offset_setters' = UpdateOffsetSetters(prog, bcs, offset_setters)
    /\ itree' = BuildITree(bcs, spans, m_spans)
    /\ pc' = "cycle"
    /\ cur' = 1
    /\ in_enum' = FALSE
    /\ saw_error' = FALSE
    /\ UNCHANGED << prog, bcs, bc_index, offset, spans, m_spans, QA, QB, errs,
                    pending, walk, hist >>
    /\ UNCHANGED utilvars

\* the cycle loop reaches span m_spans[cur]: spans with id > 0 are skipped,
\* the others enumerate the tree at their bytecode's index
CycleBegin ==
    /\ pc = "cycle"
    /\ ~in_enum
    /\ cur <= Len(m_spans)
    /\ LET s  == spans[m_spans[cur]]
           ns == Enumerate(itree, bcs[s.bc].index, bcs[s.bc].index)
       IN  IF s.id > 0 \/ ns = {}
           THEN cur' = cur + 1 /\ UNCHANGED << pending, in_enum >>
           ELSE cur' = cur /\ pending' = ns /\ in_enum' = TRUE
    /\ UNCHANGED << prog, pc, bcs, bc_index, offset, spans, m_spans, QA, QB, itree,
                    offset_setters, errs, saw_error, walk, hist >>
    /\ UNCHANGED utilvars

\* the span being visited looked for in the dependent span's backtrace
InBacktraceOfDep(span, dep_sid, span_sid, depspan) ==
    \E i \in 1..Len(depspan.backtrace) : depspan.backtrace[i] = span_sid

\* The test of Optimizer::CheckCycle: std::find(span.m_backtrace, depspan)
InBacktrace(span, dep_sid, span_sid, depspan) ==
    \E i \in 1..Len(span.backtrace) : span.backtrace[i] = dep_sid

\* std::copy(span.m_backtrace.begin(), span.m_backtrace.end(),
\*           depspan->m_backtrace.end()) writes past the end of the dependent
\* span's vector and never changes its size: when there is something to
\* copy the behaviour is undefined.  The copied elements are lost (they land
\* in spare capacity that the push_back overwrites) or the write faults.
CopyOutcomes(src) == IF src = <<>> THEN {"none"} ELSE {"lost", "fault"}

\* the dependent span's backtrace after the copy and the push_back
BacktraceAfter(dep_bt, src_bt, span_sid, outcome) == Append(dep_bt, span_sid)

\* Optimizer::CheckCycle, called back for one node of the enumeration
CheckCycle ==
    /\ pc = "cycle"
    /\ in_enum
    /\ \E e \in pending :
        LET ssid == m_spans[cur]
            span == spans[ssid]
            dep  == spans[e.sid]
            rest == pending \ {e}
        IN  IF dep.id > 0
            THEN \* only check for cycles in id=0 spans
                 /\ pending' = rest
                 /\ in_enum' = (rest # {})
                 /\ cur' = IF rest = {} THEN cur + 1 ELSE cur
                 /\ UNCHANGED << pc, spans, errs, saw_error, hist >>
            ELSE IF InBacktrace(span, e.sid, ssid, dep)
            THEN \* throw: caught by Step1e, which goes on to the next span
                 /\ errs' = Append(errs, [line |-> span.bc,
                                          msg |-> "circular reference detected"])
                 /\ hist' = Hist(errs', bcs)
                 /\ saw_error' = TRUE
                 /\ pending' = {}
                 /\ in_enum' = FALSE
                 /\ cur' = cur + 1
                 /\ UNCHANGED << pc, spans >>
            ELSE \E o \in CopyOutcomes(span.backtrace) :
                 IF o = "fault"
                 THEN /\ pc' = "abort"
                      /\ UNCHANGED << spans, errs, saw_error, hist, pending,
                                      in_enum, cur >>
                 ELSE /\ spans' = [spans EXCEPT ![e.sid].backtrace =
                                     BacktraceAfter(dep.backtrace, span.backtrace, ssid, o)]
                      /\ pending' = rest
                      /\ in_enum' = (rest # {})
                      /\ cur' = IF rest = {} THEN cur + 1 ELSE cur
                      /\ UNCHANGED << pc, errs, saw_error, hist >>
    /\ UNCHANGED << prog, bcs, bc_index, offset, m_spans, QA, QB, itree,
                    offset_setters, walk >>
    /\ UNCHANGED utilvars

Step1eEnd ==
    /\ pc = "cycle"
    /\ ~in_enum
    /\ cur > Len(m_spans)
    /\ pc' = AfterStep1e(saw_error)
    /\ cur' = 1
    /\ saw_error' = FALSE
    /\ UNCHANGED << prog, bcs, bc_index, offset, spans, m_spans, QA, QB, itree,
                    offset_setters, errs, pending, in_enum, walk, hist >>
    /\ UNCHANGED utilvars

----------------------------------------------------------------------------
(* Step 2: the main loop.                                                  *)

\* some bytecode tail has outgrown the bound of the model
OverLong == \E h \in 1..N : bcs[h].len > MaxLen

\* the test left out: inactive spans are updated like any other
TermNeverFrozen(active) == FALSE

\* "Don't expand inactive spans": if (span->m_active == Span::INACTIVE) return;
TermFrozen(active) == active = "INACTIVE"

\* Optimizer::ExpandTerm for one node: the spans and queues afterwards
\* the queue state never looked at
NeverOnQueue(active) == FALSE

\* if (span->m_active == Span::ON_Q) return;  "Already on Q"
AlreadyOnQueue(active) == active = "ON_Q"

ExpandTerm(sp, qa, qb, b, e, len_diff) ==
    LET s  == sp[e.sid]
        t  == s.terms[e.term]
        nv == IF b[t.loc.bc].index < b[t.loc2.bc].index
              THEN t.new_val + len_diff ELSE t.new_val - len_diff
        s1 == [s EXCEPT !.terms[e.term].new_val = nv]
        rn == RecalcNormal(s1)
    IN  IF TermFrozen(s.active)
        THEN [spans |-> sp, QA |-> qa, QB |-> qb]
        ELSE IF AlreadyOnQueue(s.active)
        THEN [spans |-> [sp EXCEPT ![e.sid] = s1], QA |-> qa, QB |-> qb]
        ELSE IF ~rn.fire
        THEN [spans |-> [sp EXCEPT ![e.sid] = rn.span], QA |-> qa, QB |-> qb]
        ELSE [spans |-> [sp EXCEPT ![e.sid] = [rn.span EXCEPT !.active = "ON_Q"]],
              QA |-> IF s.id <= 0 THEN Append(qa, e.sid) ELSE qa,
              QB |-> IF s.id <= 0 THEN qb ELSE Append(qb, e.sid)]

\* "another threshold, keep active": commit the term values and the value
KeepActive(s) ==
    [s EXCEPT !.terms = [i \in 1..Len(s.terms) |->
                            [s.terms[i] EXCEPT !.cur_val = s.terms[i].new_val]],
              !.cur_val = s.new_val]

\* saw_error of Step2 after the Expand of a popped span
Step2SawError(saw, n_errors) == saw \/ n_errors > 0

\* the pop forgotten: the front span stays at the head of its queue
PopForgotten(q) == q

\* m_QA.pop() / m_QB.pop()
Pop(q) == Tail(q)

\* the "continue" left out: the iteration falls through to the ripple
Step2FallsThrough(n_errors) == FALSE

\* if (errwarns.getNumErrors() > 0) { saw_error = true; continue; }
Step2Continue(n_errors) == n_errors > 0

\* the queues taken the other way round: QB first
FromQAWhenQBEmpty(qa, qb) == qb = <<>>

\* if (!m_QA.empty()) span = m_QA.front() ... else span = m_QB.front()
FromQA(qa, qb) == qa # <<>>

\* the growth handed to the offset-setters with its sign turned
WalkStartBackwards(len_diff) == -len_diff

\* long offset_diff = len_diff: what the first offset-setter has to absorb
WalkStart(len_diff) == len_diff

\* the second look left out: every span popped is expanded
ExceededWhenQueued(fire) == TRUE

\* "Make sure we ended up ultimately exceeding thresholds":
\* if (!span->RecalcNormal()) continue;
StillExceeds(fire) == fire

\* one iteration of the while loop, up to the first Enumerate
Step2Pop ==
    /\ pc = "step2"
    /\ QA # <<>> \/ QB # <<>>
    /\ ~OverLong
    /\ LET fromA == FromQA(QA, QB)
           sid   == IF fromA THEN Head(QA) ELSE Head(QB)
           s0    == spans[sid]
           rn    == RecalcNormal([s0 EXCEPT !.active = "ACTIVE"])
           s1    == rn.span
           h     == s1.bc
           x     == Expand(prog[h], bcs[h].len, s1.id, s1.cur_val, s1.new_val,
                           s1.neg_thres, s1.pos_thres)
           s2    == [s1 EXCEPT !.neg_thres = x.neg, !.pos_thres = x.pos]
           e2    == errs \o Tagged(x.errs, h)
           b2    == [bcs EXCEPT ![h].len = x.len]
           diff  == TotalLen(prog, b2, h) - TotalLen(prog, bcs, h)
       IN  /\ QA' = IF fromA THEN Pop(QA) ELSE QA
           /\ QB' = IF fromA THEN QB ELSE Pop(QB)
           /\ IF s0.active = "INACTIVE"
              THEN UNCHANGED << pc, bcs, spans, errs, saw_error, pending, walk, hist >>
              ELSE IF ~StillExceeds(rn.fire)
              THEN /\ spans' = [spans EXCEPT ![sid] = s1]
                   /\ hist' = [hist EXCEPT !.stale = TRUE]
                   /\ UNCHANGED << pc, bcs, errs, saw_error, pending, walk >>
              ELSE /\ bcs' = b2
                   /\ errs' = e2
                   /\ hist' = Called(Hist(e2, bcs'), sid, s1)
                   /\ saw_error' = Step2SawError(saw_error, Len(e2))
                   /\ IF Step2Continue(Len(e2))
                      THEN /\ spans' = [spans EXCEPT ![sid] = s2]
                           /\ UNCHANGED << pc, pending, walk >>
                      ELSE /\ spans' = [spans EXCEPT ![sid] =
                                          IF x.still THEN KeepActive(s2)
                                          ELSE [s2 EXCEPT !.active = "INACTIVE"]]
                           /\ IF diff = 0
                              THEN UNCHANGED << pc, pending, walk >>
                              ELSE /\ pc' = "ripple"
                                   /\ pending' = Enumerate(itree, bcs[h].index,
                                                           bcs[h].index)
                                   /\ walk' = [sid |-> sid, os |-> s2.os_index,
                                               offset_diff |-> WalkStart(diff),
                                               len_diff |-> diff,
                                               in_os |-> FALSE]
    /\ UNCHANGED << prog, bc_index, offset, cur, m_spans, itree, offset_setters,
                    in_enum >>
    /\ UNCHANGED utilvars

\* the Enumerate given up after its first callback
NotVisitedDropped(nodes, e) == {}

\* the nodes the running Enumerate has still to visit after node e
NotVisited(nodes, e) == nodes \ {e}

\* ExpandTerm would put the span of node e on a queue
Pushes(e) ==
    LET r == ExpandTerm(spans, QA, QB, bcs, e, walk.len_diff)
    IN  r.QA # QA \/ r.QB # QB

\* two spans are about to be put on the same queue, in the order in which
\* the Enumerate happens to visit their terms
Forked ==
    \E e, f \in pending :
        /\ e.sid # f.sid
        /\ (spans[e.sid].id <= 0) <=> (spans[f.sid].id <= 0)
        /\ Pushes(e)
        /\ Pushes(f)

\* ExpandTerm called back for one node of the running Enumerate
Ripple ==
    /\ pc = "ripple"
    /\ \E e \in pending :
        LET r == ExpandTerm(spans, QA, QB, bcs, e, walk.len_diff)
        IN  /\ spans' = r.spans
            /\ QA' = r.QA
            /\ QB' = r.QB
            /\ pending' = NotVisited(pending, e)
            /\ hist' = [hist EXCEPT !.forked = @ \/ Forked,
                                    !.frozen = @ \/ TermFrozen(spans[e.sid].active)]
    /\ UNCHANGED << prog, pc, bcs, bc_index, offset, cur, m_spans, itree,
                    offset_setters, errs, saw_error, in_enum, walk >>
    /\ UNCHANGED utilvars

\* the Enumerate returns: after the expanded bytecode's own ripple the walk
\* over the offset-setters starts; after an offset-setter's ripple the setter
\* commits its value and the walk moves on
RippleEnd ==
    /\ pc = "ripple"
    /\ pending = {}
    /\ pc' = "absorb"
    /\ IF walk.in_os
       THEN /\ offset_setters' = [offset_setters EXCEPT ![walk.os + 1].cur_val =
                                     offset_setters[walk.os + 1].new_val]
            /\ walk' = [walk EXCEPT !.os = walk.os + 1, !.in_os = FALSE]
       ELSE UNCHANGED << offset_setters, walk >>
    /\ UNCHANGED << prog, bcs, bc_index, offset, cur, spans, m_spans, QA, QB, itree,
                    errs, saw_error, pending, in_enum, hist >>
    /\ UNCHANGED utilvars

\* the walk going on although nothing is left to pass on
AbsorbCondIgnoresDiff(p, oss, w, span_bc) ==
    /\ w.os + 1 <= Len(oss)
    /\ oss[w.os + 1].bc # 0
    /\ Container(p, oss[w.os + 1].bc) = Container(p, span_bc)

\* the condition of the while loop over the offset-setters
AbsorbCond(p, oss, w, span_bc) ==
    /\ w.os + 1 <= Len(oss)
    /\ oss[w.os + 1].bc # 0
    /\ Container(p, oss[w.os + 1].bc) = Container(p, span_bc)
    /\ w.offset_diff # 0

\* assert((offset_diff >= 0 || -offset_diff <= os->m_new_val) && ...)
AbsorbAssert(offset_diff, new_val) == offset_diff >= 0 \/ -offset_diff <= new_val

\* one offset-setter of the walk
Absorb ==
    /\ pc = "absorb"
    /\ AbsorbCond(prog, offset_setters, walk, spans[walk.sid].bc)
    /\ LET i    == walk.os + 1
           os   == offset_setters[i]
           h    == os.bc
           old_next == UAdd(os.cur_val, TotalLen(prog, bcs, h))
           nv   == UAdd(os.new_val, walk.offset_diff)
           x    == Expand(prog[h], bcs[h].len, 1, os.cur_val, nv, 0, 0)
           b2   == [bcs EXCEPT ![h].len = x.len]
           od   == (nv + TotalLen(prog, b2, h)) - old_next
           ld   == x.len - bcs[h].len
       IN  IF ~AbsorbAssert(walk.offset_diff, os.new_val)
           THEN /\ pc' = "assert"
                /\ UNCHANGED << bcs, errs, hist, offset_setters, walk, pending >>
           ELSE /\ bcs' = b2
                /\ errs' = errs \o Tagged(x.errs, h)
                /\ hist' = Hist(errs', bcs')
                /\ IF ld # 0
                   THEN /\ offset_setters' = [offset_setters EXCEPT
                                                ![i].new_val = nv, ![i].thres = x.pos]
                        /\ walk' = [walk EXCEPT !.offset_diff = od, !.len_diff = ld,
                                                !.in_os = TRUE]
                        /\ pending' = Enumerate(itree, bcs[h].index, bcs[h].index)
                        /\ pc' = "ripple"
                   ELSE /\ offset_setters' = [offset_setters EXCEPT
                                                ![i].new_val = nv, ![i].thres = x.pos,
                                                ![i].cur_val = nv]
                        /\ walk' = [walk EXCEPT !.offset_diff = od, !.len_diff = ld,
                                                !.os = walk.os + 1]
                        /\ UNCHANGED << pc, pending >>
    /\ UNCHANGED << prog, bc_index, offset, cur, spans, m_spans, QA, QB, itree,
                    saw_error, in_enum >>
    /\ UNCHANGED utilvars

AbsorbEnd ==
    /\ pc = "absorb"
    /\ ~AbsorbCond(prog, offset_setters, walk, spans[walk.sid].bc)
    /\ pc' = "step2"
    /\ UNCHANGED << prog, bcs, bc_index, offset, cur, spans, m_spans, QA, QB, itree,
                    offset_setters, errs, saw_error, pending, in_enum, walk, hist >>
    /\ UNCHANGED utilvars

Step2End ==
    /\ pc = "step2"
    /\ QA = <<>>
    /\ QB = <<>>
    /\ pc' = AfterStep2(saw_error)
    /\ UNCHANGED << prog, bcs, bc_index, offset, cur, spans, m_spans, QA, QB, itree,
                    offset_setters, errs, saw_error, pending, in_enum, walk, hist >>
    /\ UNCHANGED utilvars

----------------------------------------------------------------------------
(* Step 3: the final offset refresh.                                       *)

Step3 ==
    /\ pc = "step3"
    /\ LET u == UpdateBytecodeOffsets(prog, bcs, errs)
       IN  /\ bcs' = u.bcs
           /\ errs' = u.errs
           /\ hist' = Hist(u.errs, bcs')
    /\ pc' = "done"
    /\ UNCHANGED << prog, bc_index, offset, cur, spans, m_spans, QA, QB, itree,
                    offset_setters, saw_error, pending, in_enum, walk >>
    /\ UNCHANGED utilvars

----------------------------------------------------------------------------
(* The input family: every way of filling the slots of a few shapes.       *)

\* the constant a TIMES count is measured down from: TIMES (TimesBase - dist)
TimesBase == 6

\* origins an ORG bytecode may ask for
OrgStarts == {12, 16}

\* TIMES counts k + (Loc(b) - Loc(a)) over two different handles up to m:
\* a forward distance grows with the code, a backward one is counted down
\* from TimesBase
TimesDist(m) ==
    { Times(DistVal(IF ab[1] < ab[2] THEN 0 ELSE TimesBase, Loc(ab[1]), Loc(ab[2]))) :
        ab \in { x \in (1..m) \X (1..m) : x[1] # x[2] } }

\* the descriptors that may stand at handle h of an object of n bytecodes
Slot(kind, h, n) ==
    CASE kind = "H" -> {HeadBc}
      [] kind = "D" -> {Data(d) : d \in 1..MaxData}
      [] kind = "d" -> {Data(1)}
      [] kind = "F" -> {Data(2 * MaxData + 1)}
      [] kind = "J" -> {Jmp(h, Loc(t)) : t \in (1..n) \ {h}} \cup {JmpExt}
      [] kind = "x" -> {JmpExt}
      [] kind = "e" -> {Jmp(h, Loc(n))}
      [] kind = "s" -> {Jmp(h, Loc(2))}
      [] kind = "T" -> TimesDist(n) \cup
                       {Times(RelVal), Times(ConstVal(-1)), Times(ConstVal(2))}
      [] kind = "P" -> TimesDist(h)
      [] kind = "t" -> {Times(DistVal(0, Loc(a), Loc(a + 1))) : a \in 1..(n - 1)}
      [] kind = "f" -> {Times(DistVal(0, Loc(2), Loc(4)))}
      [] kind = "b" -> {Times(DistVal(TimesBase, Loc(4), Loc(2)))}
      [] kind = "m" -> {Times(DistVal(0, Loc(2), LocAt(2, 1)))}
      [] kind = "A" -> {Align}
      [] kind = "a" -> {TimesAlign(DistVal(-1, Loc(2), Loc(3)))}
      [] kind = "O" -> {Org(s) : s \in OrgStarts}

RECURSIVE Fill(_, _)
Fill(shape, h) ==
    IF h > Len(shape) THEN {<<>>}
    ELSE {<<d>> \o r : d \in Slot(shape[h], h, Len(shape)), r \in Fill(shape, h + 1)}

Shapes ==
    { <<"H", "J", "D", "J", "x", "d">>,
      <<"H", "J", "J", "d", "x", "d">>,
      <<"H", "J", "J", "x", "A", "d", "A", "d">>,
      <<"H", "J", "J", "x", "D", "O", "d">>,
      <<"H", "d", "t", "t", "t">>,
      <<"H", "J", "D", "x", "P", "A", "d">>,
      <<"H", "T", "d", "d">>,
      <<"H", "J", "x", "d", "H", "A", "d">>,
      <<"H", "T", "J", "d">>,
      <<"H", "J", "d", "d", "J", "F", "d">>,
      <<"H", "d", "J", "x", "d", "d", "b", "J", "f", "D", "d">>,
      <<"H", "J", "D", "e", "s", "x", "d", "d", "d">>,
      <<"H", "e", "A", "x", "d", "d", "d">>,
      <<"H", "d", "m", "e", "s", "x", "d", "d">>,
      <<"H", "A", "x", "A", "d">>,
      <<"H", "d", "a", "d">> }

\* every distance term lies inside one container and joins two different
\* locations (SubstDist only yields such terms)
WellFormed(p) ==
    \A h \in 1..Len(p) : \A i \in 1..Len(p[h].val.terms) :
        /\ CalcDistOk(p, p[h].val.terms[i].loc, p[h].val.terms[i].loc2)
        /\ p[h].val.terms[i].loc # p[h].val.terms[i].loc2

Programs == { p \in UNION { Fill(sh, 1) : sh \in Shapes } : WellFormed(p) }

----------------------------------------------------------------------------
(* The specification.                                                      *)

\* the state after construction, for an input object out of ps
OptimizerInit(ps) ==
    /\ prog \in ps
    /\ pc = "step1a"
    /\ bcs = [h \in 1..Len(prog) |-> [index |-> UNSET, offset |-> UNSET, len |-> 0]]
    /\ bc_index = 0
    /\ offset = 0
    /\ cur = 1
    /\ spans = <<>>
    /\ m_spans = <<>>
    /\ QA = <<>>
    /\ QB = <<>>
    /\ itree = {}
    /\ offset_setters = << NewOffsetSetter >>
    /\ errs = <<>>
    /\ saw_error = FALSE
    /\ pending = {}
    /\ in_enum = FALSE
    /\ walk = NoWalk
    /\ hist = [err_pc |-> "", late |-> FALSE, once |-> {}, again |-> {},
               early |-> {}, ungated |-> FALSE, queued |-> {}, forked |-> FALSE, frozen |-> FALSE, stale |-> FALSE, min |-> <<>>,
               first |-> <<>>]

\* Object::FinalizeSymbols not called
SymIdle ==
    /\ m_symbols = <<>>
    /\ undef_extern = FALSE
    /\ fs_pc = "idle"
    /\ sym_i = 1
    /\ firstundef_line = ULONG_MAX
    /\ errwarns = <<>>
    /\ errwarns0 = <<>>

NoCall == [op |-> "", pos |-> 0, ret |-> 0, trap |-> FALSE]

NoWrite == [n |-> 0, val |-> 0]

\* no Bytes buffer in use
BytesIdle ==
    /\ bytes = [data |-> <<>>, readpos |-> 0, big_endian |-> FALSE]
    /\ long_bytes = 4
    /\ wrote = NoWrite
    /\ call = NoCall

\* a marg_ostream as constructed: no indentation, at the start of a line
MargIdle ==
    /\ marg = [level |-> 0, bol |-> TRUE, out |-> <<>>]
    /\ marg_hist = [opened |-> <<>>, marks |-> <<>>]

\* no Span is taken by itself
RecIdle ==
    /\ rn_span = NewSpan(1, 0, NoVal, 0, 0, 0)
    /\ rn_call = [done |-> FALSE, ret |-> FALSE, before |-> rn_span]

\* the history of a container no append_gap call is running on:
\*   calls  the append_gap calls made since a bytecode was last added
\*   sum    the sizes these calls asked for, added up as integers
\*   at     the position of the bytecode the first of them made a gap
\*   over   the contents this bytecode held before
\*   cast   an extend was made on contents that are not a gap
GapNoRun == [calls |-> 0, sum |-> 0, at |-> 0, over |-> "none", cast |-> FALSE]

\* a Bytecode without contents, as new Bytecode makes it
EmptyBytecode == [contents |-> "none", m_size |-> 0]

\* BytecodeContainer::BytecodeContainer: m_last_gap(false), start_bytecode()
GapIdle ==
    /\ m_bcs = << EmptyBytecode >>
    /\ m_last_gap = FALSE
    /\ gap_run = GapNoRun

\* no utility is in use
UtilIdle == SymIdle /\ BytesIdle /\ MargIdle /\ RecIdle /\ GapIdle

\* Object::Optimize is entered for one of the objects ps
InitFor(ps) == OptimizerInit(ps) /\ UtilIdle

Init == InitFor(Programs)

Next ==
    \/ Step1aBc
    \/ Step1aEnd
    \/ Step1bSpan
    \/ Step1bEnd
    \/ Step1c
    \/ Step1dSpan
    \/ Step1dEnd
    \/ Step1eInit
    \/ CycleBegin
    \/ CheckCycle
    \/ Step1eEnd
    \/ Step2Pop
    \/ Ripple
    \/ RippleEnd
    \/ Absorb
    \/ AbsorbEnd
    \/ Step2End
    \/ Step3

Spec == Init /\ [][Next]_vars

\* The behaviours checked for termination: the same driver, on the objects
\* of one shape that has a jump expanded in step 2, a TIMES count over any
\* two earlier locations and an alignment behind them.
LiveShapes == { <<"H", "J", "d", "x", "P", "A", "d">> }

LivePrograms == { p \in UNION { Fill(sh, 1) : sh \in LiveShapes } : WellFormed(p) }

LiveInit == InitFor(LivePrograms)

\* the driver is a sequential program: it always takes its next step
LiveSpec == LiveInit /\ [][Next]_vars /\ WF_vars(Next)

----------------------------------------------------------------------------
(* Optimize called more than once.                                         *)

\* the history of a run that follows a run which returned with b and e
HistAfter(b, e) ==
    [err_pc |-> "", late |-> FALSE, once |-> {}, again |-> {}, early |-> {},
     ungated |-> FALSE, queued |-> {}, forked |-> FALSE, frozen |-> FALSE, stale |-> FALSE, min |-> <<>>,
     first |-> << [bcs |-> b, errs |-> e] >>]

\* Object::Optimize is entered with a new Optimizer (and the caller's
\* Errwarns emptied) and the bytecodes b
Enter(b) ==
    /\ pc' = "step1a"
    /\ bcs' = b
    /\ bc_index' = 0
    /\ offset' = 0
    /\ cur' = 1
    /\ spans' = <<>>
    /\ m_spans' = <<>>
    /\ QA' = <<>>
    /\ QB' = <<>>
    /\ itree' = {}
    /\ offset_setters' = << NewOffsetSetter >>
    /\ errs' = <<>>
    /\ saw_error' = FALSE
    /\ pending' = {}
    /\ in_enum' = FALSE
    /\ walk' = NoWalk
    /\ UNCHANGED prog

\* Optimize is run a second time on the object its first, error-free run
\* has produced
Rerun ==
    /\ pc = "done"
    /\ hist.first = <<>>
    /\ errs = <<>>
    /\ Enter(bcs)
    /\ hist' = HistAfter(bcs, errs)
    /\ UNCHANGED utilvars

\* the same input object is optimized once more from scratch
Restart ==
    /\ pc = "done"
    /\ hist.first = <<>>
    /\ Enter([h \in 1..N |-> [index |-> UNSET, offset |-> UNSET, len |-> 0]])
    /\ hist' = HistAfter(bcs, errs)
    /\ UNCHANGED utilvars

\* a first run and a second run on its output
TwiceSpec == Init /\ [][Next \/ Rerun]_vars

\* two runs on the same input, each with any order of enumeration
AgainSpec == Init /\ [][Next \/ Restart]_vars

----------------------------------------------------------------------------
(* Object::FinalizeSymbols.  Symbol::Finalize and Symbol::getUseLine are   *)
(* not part of the sources at hand: a symbol that is used but neither      *)
(* defined nor declared extern/common is declared extern when undef_extern *)
(* is set and is an error otherwise; its use line is the line of its first *)
(* use.  A symbol is named by its position in the list.                    *)

\* symbols per object
MaxSyms == 3

\* source lines 1..MaxLine
MaxLine == 2

UndefinedMsg == "undefined symbol (first use)"

ClosingMsg == " (Each undefined symbol is reported only once.)"

\* the symbols an object may hold: used ones carry the line of their first
\* use, "final" records that Finalize has been called
Symbols ==
    { [used |-> TRUE, defined |-> d, declared |-> x, use_line |-> l, final |-> FALSE] :
          d \in BOOLEAN, x \in BOOLEAN, l \in 1..MaxLine } \cup
    { [used |-> FALSE, defined |-> d, declared |-> FALSE, use_line |-> 0, final |-> FALSE] :
          d \in BOOLEAN }

\* Symbol::Finalize(undef_extern): the symbol afterwards and whether an
\* Error is thrown
SymbolFinalize(sym, undef) ==
    IF sym.used /\ ~sym.defined /\ ~sym.declared
    THEN IF undef
         THEN [sym |-> [sym EXCEPT !.declared = TRUE, !.final = TRUE], throws |-> FALSE]
         ELSE [sym |-> [sym EXCEPT !.final = TRUE], throws |-> TRUE]
    ELSE [sym |-> [sym EXCEPT !.final = TRUE], throws |-> FALSE]

\* errwarns.Propagate(line, err)
Propagate(ew, line, msg, name) == Append(ew, [line |-> line, msg |-> msg, sym |-> name])

\* the loop given up at the first symbol that fails
StopAtFailure(i, n, failed) == IF failed THEN n + 1 ELSE i + 1

\* ++i: the catch block falls through to the next symbol
NextSymbol(i, n, failed) == i + 1

\* the line of the failure seen last
LastUndef(use_line, first) == use_line

\* if (use_line < firstundef_line) firstundef_line = use_line;
FirstUndef(use_line, first) == IF use_line < first THEN use_line ELSE first

\* one iteration of the for loop over m_symbols
FinalizeSymbol ==
    /\ fs_pc = "loop"
    /\ sym_i <= Len(m_symbols)
    /\ LET r        == SymbolFinalize(m_symbols[sym_i], undef_extern)
           use_line == m_symbols[sym_i].use_line
       IN  /\ m_symbols' = [m_symbols EXCEPT ![sym_i] = r.sym]
           /\ sym_i' = NextSymbol(sym_i, Len(m_symbols), r.throws)
           /\ IF r.throws
              THEN /\ errwarns' = Propagate(errwarns, use_line, UndefinedMsg, sym_i)
                   /\ firstundef_line' = FirstUndef(use_line, firstundef_line)
              ELSE UNCHANGED << errwarns, firstundef_line >>
    /\ UNCHANGED << undef_extern, fs_pc, errwarns0 >>
    /\ UNCHANGED << optvars, bytevars, margvars, recvars, gapvars >>

\* after the loop: the closing message
FinalizeSymbolsEnd ==
    /\ fs_pc = "loop"
    /\ sym_i > Len(m_symbols)
    /\ errwarns' = IF firstundef_line < ULONG_MAX
                   THEN Propagate(errwarns, firstundef_line, ClosingMsg, 0)
                   ELSE errwarns
    /\ fs_pc' = "done"
    /\ UNCHANGED << m_symbols, undef_extern, sym_i, firstundef_line, errwarns0 >>
    /\ UNCHANGED << optvars, bytevars, margvars, recvars, gapvars >>

RECURSIVE SeqsUpTo(_, _)
\* the sequences over S of length up to n
SeqsUpTo(S, n) ==
    IF n = 0 THEN {<<>>}
    ELSE LET shorter == SeqsUpTo(S, n - 1)
         IN  shorter \cup {Append(q, x) : q \in shorter, x \in S}

\* what the sink may hold when FinalizeSymbols is called
Sinks == { <<>>, << [line |-> 1, msg |-> "syntax error", sym |-> 0] >> }

\* FinalizeSymbols is entered for some symbol list and some sink; the
\* optimizer is not running
SymInit ==
    /\ OptimizerInit({<< HeadBc >>})
    /\ m_symbols \in SeqsUpTo(Symbols, MaxSyms)
    /\ undef_extern \in BOOLEAN
    /\ fs_pc = "loop"
    /\ sym_i = 1
    /\ firstundef_line = ULONG_MAX
    /\ errwarns0 \in Sinks
    /\ errwarns = errwarns0
    /\ BytesIdle
    /\ MargIdle
    /\ RecIdle
    /\ GapIdle

SymNext ==
    \/ FinalizeSymbol
    \/ FinalizeSymbolsEnd

SymSpec == SymInit /\ [][SymNext]_vars

----------------------------------------------------------------------------
(* Bytes_util.h: fixed-width writes to and reads from a Bytes buffer.      *)
(* A byte has ByteBits bits (8 in the program); unsigned char is 1 byte,   *)
(* short 2 bytes, int 4 bytes and long long_bytes bytes wide, so that the  *)
(* masks, shifts, promotions and conversions of the code keep their place. *)
(* class Bytes is not part of the sources at hand: push_back appends to    *)
(* the data, Read(n) hands out the n bytes at the read position and moves  *)
(* the position on.  One behaviour is one value written to an empty       *)
(* buffer, followed by reads.                                              *)

ByteBits == 2

\* 0x100, and 0xFF as a mask: x & 0xFF is x % ByteMod
ByteMod == 2^ByteBits

\* number of values of an unsigned type of n bytes
TypeMod(n) == 2^(n * ByteBits)

\* sizeof(int)
IntBytes == 4

\* conversion to an unsigned type of n bytes
ToUnsigned(x, n) == x % TypeMod(n)

\* conversion to a signed type of n bytes (two's complement, as every
\* supported compiler does it)
ToSigned(x, n) ==
    LET r == x % TypeMod(n)
    IN  IF r >= TypeMod(n) \div 2 THEN r - TypeMod(n) ELSE r

RECURSIVE BitOr(_, _)
\* a | b on non-negative numbers
BitOr(a, b) ==
    IF a = 0 THEN b
    ELSE IF b = 0 THEN a
    ELSE (IF a % 2 = 1 \/ b % 2 = 1 THEN 1 ELSE 0) + 2 * BitOr(a \div 2, b \div 2)

\* val >> (8 * k)
ShiftRight(val, k) == val \div TypeMod(k)

\* val <<= 8 in an unsigned type of n bytes
ShiftLeft8(val, n) == (val * ByteMod) % TypeMod(n)

\* val & 0x80, val & 0x8000, val & 0x80000000UL: the top bit of n bytes
TopBit(val, n) == (val \div (TypeMod(n) \div 2)) % 2 = 1

\* bytes.push_back(b)
PushBack(bs, b) == [bs EXCEPT !.data = Append(@, b)]

\* bytes.Read(n): the n bytes at the read position
ReadPtr(bs, n) == [i \in 1..n |-> bs.data[bs.readpos + i]]

\* Write8(bytes, unsigned char val)
Write8(bs, val) == PushBack(bs, ToUnsigned(val, 1) % ByteMod)

\* a buffer filled low byte first whatever its byte order
Write16LittleEndian(bs, v) ==
    LET val == ToUnsigned(v, 2)
    IN  PushBack(PushBack(bs, val % ByteMod), ShiftRight(val, 1) % ByteMod)

\* Write16(bytes, unsigned short val)
Write16(bs, v) ==
    LET val == ToUnsigned(v, 2)
    IN  IF bs.big_endian
        THEN PushBack(PushBack(bs, ShiftRight(val, 1) % ByteMod), val % ByteMod)
        ELSE PushBack(PushBack(bs, val % ByteMod), ShiftRight(val, 1) % ByteMod)

\* Write32(bytes, unsigned long val)
Write32(bs, val) ==
    IF bs.big_endian
    THEN PushBack(PushBack(PushBack(PushBack(bs,
             ShiftRight(val, 3) % ByteMod), ShiftRight(val, 2) % ByteMod),
             ShiftRight(val, 1) % ByteMod), val % ByteMod)
    ELSE PushBack(PushBack(PushBack(PushBack(bs,
             val % ByteMod), ShiftRight(val, 1) % ByteMod),
             ShiftRight(val, 2) % ByteMod), ShiftRight(val, 3) % ByteMod)

\* ReadU8: ptr[0] & 0xFF
ReadU8(bs) == ReadPtr(bs, 1)[1] % ByteMod

\* ReadU16: the value built in an unsigned short
ReadU16(bs) ==
    LET ptr == ReadPtr(bs, 2)
    IN  IF bs.big_endian
        THEN BitOr(ShiftLeft8(BitOr(0, ptr[1] % ByteMod), 2), ptr[2] % ByteMod)
        ELSE BitOr(ShiftLeft8(BitOr(0, ptr[2] % ByteMod), 2), ptr[1] % ByteMod)

\* ReadU32: the value built in an unsigned long of lb bytes
ReadU32(bs, lb) ==
    LET ptr == ReadPtr(bs, 4)
        b(i) == ptr[i] % ByteMod
    IN  IF bs.big_endian
        THEN BitOr(ShiftLeft8(BitOr(ShiftLeft8(BitOr(ShiftLeft8(BitOr(0,
                 b(1)), lb), b(2)), lb), b(3)), lb), b(4))
        ELSE BitOr(ShiftLeft8(BitOr(ShiftLeft8(BitOr(ShiftLeft8(BitOr(0,
                 b(4)), lb), b(3)), lb), b(2)), lb), b(1))

\* ReadS8 of the unsigned char val: ~val is computed in int, the cast is to
\* signed char, the negation is done in int and the result returned as
\* signed char
ReadS8Of(val) ==
    IF TopBit(val, 1)
    THEN ToSigned(-ToSigned(ToSigned((-val - 1) + 1, IntBytes), 1), 1)
    ELSE ToSigned(val, 1)

\* ReadS16 of the unsigned short val, likewise through int
ReadS16Of(val) ==
    IF TopBit(val, 2)
    THEN ToSigned(-ToSigned(ToSigned((-val - 1) + 1, IntBytes), 2), 2)
    ELSE ToSigned(val, 2)

\* ReadS32 of the unsigned long val (lb bytes wide): ~val and +1 are
\* computed in unsigned long, the cast is to long, and the negation is done
\* in long; negating LONG_MIN overflows, which is undefined: the build
\* either wraps or traps
ReadS32Of(val, lb) ==
    IF TopBit(val, 4)
    THEN LET t == ToUnsigned((TypeMod(lb) - 1 - val) + 1, lb)
             c == ToSigned(t, lb)
         IN  IF c = -(TypeMod(lb) \div 2)
             THEN { [ret |-> c, trap |-> FALSE], [ret |-> 0, trap |-> TRUE] }
             ELSE { [ret |-> -c, trap |-> FALSE] }
    ELSE { [ret |-> ToSigned(val, lb), trap |-> FALSE] }

\* the Write call on the buffer is remembered
Wrote(n, val) == [n |-> n, val |-> val]

\* the values a caller passes for an unsigned long: every 32-bit value, and
\* on a build with a wider long the same with a bit beyond the 32 set
ULongArgs(lb) ==
    (0..(TypeMod(4) - 1)) \cup
    (IF lb > 4 THEN {TypeMod(4) + v : v \in {0, 1, TypeMod(4) - 1}} ELSE {})

DoWrite8 ==
    /\ bytes.data = <<>>
    /\ \E val \in 0..(TypeMod(1) - 1) :
        /\ bytes' = Write8(bytes, val)
        /\ wrote' = Wrote(1, val)
    /\ UNCHANGED << long_bytes, call >>
    /\ UNCHANGED << optvars, symvars, margvars, recvars, gapvars >>

DoWrite16 ==
    /\ bytes.data = <<>>
    /\ \E val \in 0..(TypeMod(2) - 1) :
        /\ bytes' = Write16(bytes, val)
        /\ wrote' = Wrote(2, val)
    /\ UNCHANGED << long_bytes, call >>
    /\ UNCHANGED << optvars, symvars, margvars, recvars, gapvars >>

DoWrite32 ==
    /\ bytes.data = <<>>
    /\ \E val \in ULongArgs(long_bytes) :
        /\ bytes' = Write32(bytes, val)
        /\ wrote' = Wrote(4, val)
    /\ UNCHANGED << long_bytes, call >>
    /\ UNCHANGED << optvars, symvars, margvars, recvars, gapvars >>

\* a Read call of n bytes that returns ret
Returned(op, n, ret, trap) ==
    /\ bytes' = [bytes EXCEPT !.readpos = @ + n]
    /\ call' = [op |-> op, pos |-> bytes.readpos, ret |-> ret, trap |-> trap]
    /\ UNCHANGED << long_bytes, wrote >>
    /\ UNCHANGED << optvars, symvars, margvars, recvars, gapvars >>

\* n bytes are there to be read
Readable(n) == bytes.readpos + n <= Len(bytes.data)

DoReadU8 == Readable(1) /\ Returned("ReadU8", 1, ReadU8(bytes), FALSE)

DoReadS8 == Readable(1) /\ Returned("ReadS8", 1, ReadS8Of(ReadU8(bytes)), FALSE)

DoReadU16 == Readable(2) /\ Returned("ReadU16", 2, ReadU16(bytes), FALSE)

DoReadS16 == Readable(2) /\ Returned("ReadS16", 2, ReadS16Of(ReadU16(bytes)), FALSE)

DoReadU32 == Readable(4) /\ Returned("ReadU32", 4, ReadU32(bytes, long_bytes), FALSE)

DoReadS32 ==
    /\ Readable(4)
    /\ \E r \in ReadS32Of(ReadU32(bytes, long_bytes), long_bytes) :
           Returned("ReadS32", 4, r.ret, r.trap)

\* an empty buffer of either byte order, on a build with a long of 4 or 8
\* bytes; the optimizer is not running
BytesInit ==
    /\ OptimizerInit({<< HeadBc >>})
    /\ SymIdle
    /\ bytes \in { [data |-> <<>>, readpos |-> 0, big_endian |-> e] : e \in BOOLEAN }
    /\ long_bytes \in {4, 8}
    /\ wrote = NoWrite
    /\ call = NoCall
    /\ MargIdle
    /\ RecIdle
    /\ GapIdle

BytesNext ==
    \/ DoWrite8
    \/ DoWrite16
    \/ DoWrite32
    \/ DoReadU8
    \/ DoReadS8
    \/ DoReadU16
    \/ DoReadS16
    \/ DoReadU32
    \/ DoReadS32

BytesSpec == BytesInit /\ [][BytesNext]_vars

----------------------------------------------------------------------------
(* marg_ostream.  The class is not part of the sources at hand; it is      *)
(* modelled from its unit test (marg_ostream_test.cpp) and from its use in *)
(* operator<<(marg_ostream&, const Object&): the stream writes a margin of *)
(* two spaces per level in front of the first character of a line.  The    *)
(* output is a sequence of characters: " ", "\n" and "a" for any other.    *)

\* indentation levels 0..MaxLevel
MaxLevel == 2

\* lines written to one stream
MaxLines == 3

\* characters of text in one line
MaxText == 2

\* one space per level
MarginOne(level) == [i \in 1..level |-> " "]

\* the margin in front of a line at the given level
Margin(level) == [i \in 1..(2 * level) |-> " "]

\* the number of lines begun so far
Begun(o) == Len(SelectSeq(o.out, LAMBDA c : c = "\n")) + (IF o.bol THEN 0 ELSE 1)

RECURSIVE TextOfLast(_)
\* the number of characters of text in the unfinished line
TextOfLast(out) ==
    IF out = <<>> \/ out[Len(out)] # "a" THEN 0
    ELSE 1 + TextOfLast(SubSeq(out, 1, Len(out) - 1))

\* os << c for one character c
Put(o, c) ==
    [o EXCEPT !.out = IF o.bol THEN @ \o Margin(o.level) \o << c >> ELSE Append(@, c),
              !.bol = (c = "\n")]

\* ++os; the level it was applied at is remembered until the matching --os
MargInc ==
    /\ marg.level < MaxLevel
    /\ marg' = [marg EXCEPT !.level = @ + 1]
    /\ marg_hist' = [marg_hist EXCEPT !.opened = Append(@, marg.level)]
    /\ UNCHANGED << optvars, symvars, bytevars, recvars, gapvars >>

\* --os
MargDec ==
    /\ marg.level > 0
    /\ marg' = [marg EXCEPT !.level = @ - 1]
    /\ marg_hist' = [marg_hist EXCEPT !.opened = SubSeq(@, 1, Len(@) - 1)]
    /\ UNCHANGED << optvars, symvars, bytevars, recvars, gapvars >>

\* os << a character of text; the level a line is begun at is remembered
MargText ==
    /\ IF marg.bol THEN Begun(marg) < MaxLines ELSE TextOfLast(marg.out) < MaxText
    /\ marg' = Put(marg, "a")
    /\ marg_hist' = IF marg.bol
                    THEN [marg_hist EXCEPT !.marks = Append(@, marg.level)]
                    ELSE marg_hist
    /\ UNCHANGED << optvars, symvars, bytevars, recvars, gapvars >>

\* os << "\n" at the end of a line of text
MargEol ==
    /\ ~marg.bol
    /\ marg' = Put(marg, "\n")
    /\ UNCHANGED marg_hist
    /\ UNCHANGED << optvars, symvars, bytevars, recvars, gapvars >>

\* a stream as constructed; nothing else is running
MargInit ==
    /\ OptimizerInit({<< HeadBc >>})
    /\ SymIdle
    /\ BytesIdle
    /\ MargIdle
    /\ RecIdle
    /\ GapIdle

MargNext ==
    \/ MargInc
    \/ MargDec
    \/ MargText
    \/ MargEol

MargSpec == MargInit /\ [][MargNext]_vars

----------------------------------------------------------------------------
(* Span::RecalcNormal taken by itself, on a span of any value.             *)

MaxK == 2

MaxDist == 1

\* the absolute parts: a constant, or a constant plus one sym-sym distance,
\* either of them possibly with a part that does not reduce to an integer
RecalcAbs ==
    { [hasAbs |-> TRUE, k |-> k, terms |-> ts, rel |-> r, cplx |-> c] :
        k \in (-MaxK..MaxK) \cup {LONG_MAX},
        ts \in {<<>>, << [loc |-> Loc(2), loc2 |-> Loc(3)] >>},
        r \in BOOLEAN, c \in BOOLEAN }

\* the spans: id 0 (TIMES-like) and id 1 (jump-like), thresholds -1 and 1,
\* the term, if any, at a new distance of -MaxDist..MaxDist; the sum stays
\* within a long
RecalcSpansOf(v) ==
    { [NewSpan(1, id, v, -1, 1, 0) EXCEPT
          !.cur_val = cv,
          !.terms = [i \in 1..Len(v.terms) |->
                       [loc |-> v.terms[i].loc, loc2 |-> v.terms[i].loc2,
                        cur_val |-> 0, new_val |-> d]]] :
        id \in {0, 1}, cv \in {0, 1, LONG_MAX},
        d \in { x \in -MaxDist..MaxDist : v.k + x <= LONG_MAX } }

RecalcSpans == UNION { RecalcSpansOf(v) : v \in RecalcAbs \cup {NoVal, RelVal} }

\* Span::RecalcNormal is called on the span
Recalc ==
    /\ LET rn == RecalcNormal(rn_span)
       IN  /\ rn_span' = rn.span
           /\ rn_call' = [done |-> TRUE, ret |-> rn.fire, before |-> rn_span]
    /\ UNCHANGED << optvars, symvars, bytevars, margvars, gapvars >>

\* the value has been applied: step 2 moves new_val to cur_val
RecalcApply ==
    /\ rn_call.done
    /\ rn_span.cur_val # rn_span.new_val
    /\ rn_span' = [rn_span EXCEPT !.cur_val = rn_span.new_val]
    /\ UNCHANGED << rn_call, optvars, symvars, bytevars, margvars, gapvars >>

RecalcInit ==
    /\ OptimizerInit({<< HeadBc >>})
    /\ SymIdle
    /\ BytesIdle
    /\ MargIdle
    /\ GapIdle
    /\ rn_span \in RecalcSpans
    /\ rn_call = [done |-> FALSE, ret |-> FALSE, before |-> rn_span]

RecalcNext ==
    \/ Recalc
    \/ RecalcApply

RecalcSpec == RecalcInit /\ [][RecalcNext]_vars

----------------------------------------------------------------------------
(* BytecodeContainer: appending bytecodes and gaps (bc_container.cpp).     *)

\* the width of unsigned int in the model
UIntBits == 2

\* the bytecodes a container is filled up to
MaxBcs == 3

\* the append_gap calls followed without a new bytecode in between
MaxCalls == 3

UIntMod == 2 ^ UIntBits

\* the sizes append_gap is called with: every unsigned int
GapSizes == 0..(UIntMod - 1)

\* GapBytecode::extend: m_size += size, on unsigned int
Extend(m_size, size) == (m_size + size) % UIntMod

\* Bytecode::has_contents
HasContents(bc) == bc.contents # "none"

\* BytecodeContainer::start_bytecode, as the operator on the state it is
StartBytecode(b) == Append(b, EmptyBytecode)

\* BytecodeContainer::fresh_bytecode: the list afterwards; the bytecode
\* returned is its last one
FreshBytecode(b) == IF HasContents(b[Len(b)]) THEN StartBytecode(b) ELSE b

\* append_bytecode(bc): bc is null, or a bytecode with or without contents
append_bytecode ==
    /\ \E bc \in {"null", "none", "other"} :
          /\ bc # "null" => Len(m_bcs) < MaxBcs
          /\ m_bcs' = IF bc = "null" THEN m_bcs
                      ELSE Append(m_bcs, [contents |-> bc, m_size |-> 0])
    /\ m_last_gap' = FALSE
    /\ gap_run' = [GapNoRun EXCEPT !.cast = gap_run.cast]
    /\ UNCHANGED << optvars, symvars, bytevars, margvars, recvars >>

\* append_gap(size, line): extend the gap made by the call before, or turn a
\* fresh bytecode into a gap.  The static_cast of the extend path is taken
\* on whatever the last bytecode holds.
append_gap ==
    /\ gap_run.calls < MaxCalls
    /\ \E size \in GapSizes :
          IF m_last_gap
          THEN /\ m_bcs' = [m_bcs EXCEPT ![Len(m_bcs)].m_size = Extend(@, size)]
               /\ gap_run' = [gap_run EXCEPT
                                !.calls = @ + 1,
                                !.sum   = @ + size,
                                !.cast  = @ \/ m_bcs[Len(m_bcs)].contents # "gap"]
               /\ UNCHANGED m_last_gap
          ELSE /\ Len(FreshBytecode(m_bcs)) <= MaxBcs
               /\ m_bcs' = [FreshBytecode(m_bcs) EXCEPT
                              ![Len(FreshBytecode(m_bcs))] =
                                  [contents |-> "gap", m_size |-> size]]
               /\ m_last_gap' = TRUE
               /\ gap_run' = [calls |-> 1, sum |-> size, at |-> Len(m_bcs'),
                              over |-> FreshBytecode(m_bcs)[Len(m_bcs')].contents,
                              cast |-> gap_run.cast]
    /\ UNCHANGED << optvars, symvars, bytevars, margvars, recvars >>

\* start_bytecode(): a new bytecode without contents
start_bytecode ==
    /\ Len(m_bcs) < MaxBcs
    /\ m_bcs' = StartBytecode(m_bcs)
    /\ m_last_gap' = FALSE
    /\ gap_run' = [GapNoRun EXCEPT !.cast = gap_run.cast]
    /\ UNCHANGED << optvars, symvars, bytevars, margvars, recvars >>

\* fresh_bytecode(): start_bytecode if the last bytecode has contents,
\* otherwise nothing changes
fresh_bytecode ==
    /\ Len(FreshBytecode(m_bcs)) <= MaxBcs
    /\ IF HasContents(m_bcs[Len(m_bcs)])
       THEN /\ m_bcs' = StartBytecode(m_bcs)
            /\ m_last_gap' = FALSE
            /\ gap_run' = [GapNoRun EXCEPT !.cast = gap_run.cast]
       ELSE UNCHANGED << m_bcs, m_last_gap, gap_run >>
    /\ UNCHANGED << optvars, symvars, bytevars, margvars, recvars >>

GapInit ==
    /\ OptimizerInit({<< HeadBc >>})
    /\ SymIdle
    /\ BytesIdle
    /\ MargIdle
    /\ RecIdle
    /\ GapIdle

GapNext ==
    \/ append_bytecode
    \/ append_gap
    \/ start_bytecode
    \/ fresh_bytecode

GapSpec == GapInit /\ [][GapNext]_vars

----------------------------------------------------------------------------
(* Properties.                                                             *)

Registered == { m_spans[i] : i \in 1..Len(m_spans) }

HasError(line, msg) == \E k \in 1..Len(errs) : errs[k].line = line /\ errs[k].msg = msg

Circular == "circular reference detected"

RECURSIVE SumDist(_, _)
SumDist(ts, n) ==
    IF n = 0 THEN 0 ELSE CalcDist(bcs, ts[n].loc, ts[n].loc2) + SumDist(ts, n - 1)

LayoutValue(s) == s.depval.k + SumDist(s.terms, Len(s.terms))

\* C2 (correct encoding on completion): when Optimize has returned without
\* a recorded error, every registered id > 0 span that is not INACTIVE has
\* its value, recomputed from the final offsets, inside its thresholds.
C2_CorrectEncoding ==
    (pc = "done" /\ errs = <<>>) =>
        \A sid \in Registered :
            (spans[sid].id > 0 /\ spans[sid].active # "INACTIVE") =>
                /\ LayoutValue(spans[sid]) >= spans[sid].neg_thres
                /\ LayoutValue(spans[sid]) <= spans[sid].pos_thres

\* span a's bytecode index lies inside the tree interval of a term of span b
DependsAcross(a, b) ==
    \E e \in itree : /\ e.sid = b
                     /\ e.low <= bcs[spans[a].bc].index
                     /\ bcs[spans[a].bc].index <= e.high

AnyChangeSpans == { sid \in Registered : spans[sid].id <= 0 }

\* b is reached from a along DependsAcross in 1..n steps
RECURSIVE Reaches(_, _, _)
Reaches(a, b, n) ==
    IF n = 0 THEN FALSE
    ELSE \/ DependsAcross(a, b)
         \/ \E c \in AnyChangeSpans : DependsAcross(a, c) /\ Reaches(c, b, n - 1)

MutualCycle ==
    \E a \in AnyChangeSpans, b \in AnyChangeSpans :
        /\ a # b
        /\ Reaches(a, b, Cardinality(AnyChangeSpans))
        /\ Reaches(b, a, Cardinality(AnyChangeSpans))

\* C3 (mutual cycle detection): when the interval tree built by step 1e
\* holds a dependency cycle of two or more id <= 0 spans, step 2 is never
\* entered, and Optimize returns with "circular reference detected" recorded.
C3_MutualCycleDetected ==
    MutualCycle =>
        /\ PhaseOf(pc) \notin {"step2", "step3"}
        /\ pc = "done" => \E k \in 1..Len(errs) : errs[k].msg = Circular

\* the span's own bytecode index lies in the tree interval of one of its terms
SelfInTree(s) ==
    /\ s.id <= 0
    /\ \E i \in 1..Len(s.terms) :
          /\ TermInterval(bcs, s.terms[i]).low <= bcs[s.bc].index
          /\ bcs[s.bc].index <= TermInterval(bcs, s.terms[i]).high

\* C4 (self-cycle detection): an id <= 0 span whose own bytecode index lies
\* in the tree interval of one of its terms has had "circular reference
\* detected" recorded by step 1b, and step 2 is not entered.
C4_SelfCycleDetected ==
    \A sid \in Registered :
        SelfInTree(spans[sid]) =>
            /\ HasError(spans[sid].bc, Circular)
            /\ pc \in {"step1b", "done"}
\* C5 (length monotonicity): no step of a run lowers the total length of
\* any bytecode, offset-setting bytecodes included.
C5_LengthMonotone ==
    [][\A h \in 1..N : TotalLen(prog, bcs', h) >= TotalLen(prog, bcs, h)]_vars

\* C6 (offset monotonicity): no write of a bytecode offset lowers an offset
\* that was assigned before (step 1a, then the refreshes of 1c and 3).
C6_OffsetMonotone ==
    [][\A h \in 1..N : bcs[h].offset # UNSET => bcs'[h].offset >= bcs[h].offset]_vars
\* C5 as amended: no step lowers the total length of a bytecode that is not
\* offset-setting (an align or org tail may shrink when the bytecode is
\* re-expanded for a larger offset).
C5_PlainLengthMonotone ==
    [][\A h \in 1..N : ~IsOffsetSetting(prog[h]) =>
            TotalLen(prog, bcs', h) >= TotalLen(prog, bcs, h)]_vars

\* an offset-setter has just shrunk while absorbing the growth of a jump
C5_Witness ==
    /\ pc = "ripple"
    /\ walk.in_os
    /\ walk.len_diff < 0
    /\ prog[spans[walk.sid].bc].kind = "jmp"
    /\ bcs[spans[walk.sid].bc].len = JmpLongLen

\* the final refresh has moved the bytecode behind a jump that step 2
\* expanded to the offset behind the long form
C6_Witness ==
    /\ pc = "done"
    /\ errs = <<>>
    /\ walk.sid # 0
    /\ spans[walk.sid].bc < N
    /\ prog[spans[walk.sid].bc].kind = "jmp"
    /\ bcs[spans[walk.sid].bc + 1].offset = bcs[spans[walk.sid].bc].offset + JmpLongLen

\* C7 (layout consistency): when Optimize has returned without a recorded
\* error, every section's head is at offset 0 and every bytecode that is not
\* offset-setting is followed, inside its section, at offset + total length.
C7_LayoutConsistent ==
    (pc = "done" /\ errs = <<>>) =>
        /\ \A h \in 1..N : prog[h].kind = "head" => bcs[h].offset = 0
        /\ \A h \in 1..(N - 1) :
              (prog[h + 1].kind # "head" /\ ~IsOffsetSetting(prog[h])) =>
                  bcs[h + 1].offset = bcs[h].offset + TotalLen(prog, bcs, h)

\* an error-free return after step 3, step 2 having expanded a span and an
\* alignment standing in the object
C7_Witness ==
    /\ pc = "done"
    /\ errs = <<>>
    /\ walk.sid # 0
    /\ \E h \in 1..N : prog[h].kind = "align" /\ bcs[h].len > 0

\* C8 (error gating of phases): once an error has been recorded in a phase,
\* Optimize is in that phase or has returned; no later phase runs.
C8_ErrorGating ==
    hist.err_pc # "" => PhaseOf(pc) \in {hist.err_pc, "done"}

\* C9 (no mutation past the point of failure): in step 1b and in step 2, a
\* step that begins with an error on record changes no bytecode's length.
C9_NoMutationAfterError ==
    [][(errs # <<>> /\ PhaseOf(pc) \in {"step1b", "step2"}) =>
            \A h \in 1..N : bcs'[h].len = bcs[h].len]_vars

\* C9 as amended: in step 2 a span popped while an error is on record is
\* expanded without being rippled: the iteration changes the length of at
\* most its own bytecode, and no span term, queue tail or offset-setter.
C9_NoRippleAfterError ==
    [][(pc = "step2" /\ errs' # <<>>) =>
            /\ pc' \in {"step2", "done", "step3"}
            /\ offset_setters' = offset_setters
            /\ Len(QA') <= Len(QA)
            /\ Len(QB') <= Len(QB)
            /\ \A sid \in 1..Len(spans) : spans'[sid].terms = spans[sid].terms
            /\ Cardinality({h \in 1..N : bcs'[h] # bcs[h]}) <= 1]_vars

\* step 2 is at the top of its loop, the first error was recorded in step 2
\* and a later expand has changed a length
C9_Witness ==
    /\ pc = "step2"
    /\ hist.err_pc = "step2"
    /\ hist.late

Secondary == "secondary expansion of an external/complex value"

\* the span has been through CreateTerms and RecalcNormal
Processed(s) ==
    /\ s.depval.hasAbs => Len(s.terms) = Len(s.depval.terms)
    /\ s.depval.rel => s.active = "INACTIVE"

\* C10 (immediate abort on secondary expansion): once the secondary
\* expansion error is recorded for a span, no span behind it in the registry
\* is processed.
C10_ImmediateAbort ==
    \A k \in 1..Len(errs) :
        errs[k].msg = Secondary =>
            \A sid \in Registered :
                spans[sid].bc > errs[k].line =>
                    (spans[sid].terms = <<>> /\ spans[sid].active = "ACTIVE"
                       /\ bcs[spans[sid].bc].len = JmpShortLen)

\* C10 as amended: the error is recorded, step 1b goes on with the spans
\* behind (all of them are processed by the end of the loop), and Optimize
\* returns at the end of step 1b, before step 1c.
C10_ContinueThenReturn ==
    (\E k \in 1..Len(errs) : errs[k].msg = Secondary) =>
        /\ pc \in {"step1b", "done"}
        /\ (pc = "done" \/ cur > Len(m_spans)) =>
               \A sid \in Registered : Processed(spans[sid])

\* the error is on record and a jump behind the span has been expanded
C10_Witness ==
    \E k \in 1..Len(errs) :
        /\ errs[k].msg = Secondary
        /\ \E h \in 1..N : /\ h > errs[k].line
                           /\ prog[h].kind = "jmp"
                           /\ bcs[h].len = JmpLongLen

\* the spans Expand has been called for in step 2
Late == (hist.once \cup hist.again) \ hist.early

\* C11 (threshold-gated expansion): every Expand call the driver has made
\* for a span of id > 0, in step 1b or in step 2, was made with the span's
\* just-recomputed value below neg_thres or above pos_thres.
C11_ThresholdGated == ~hist.ungated

\* Optimize has returned; a jump to a label of its section was expanded in
\* step 1b and another one in step 2
C11_Witness ==
    /\ pc = "done"
    /\ \E a \in hist.early : spans[a].id > 0 /\ ~spans[a].depval.rel
    /\ \E b \in Late : spans[b].id > 0 /\ ~spans[b].depval.rel

\* the numbers of the spans in queue q
InQueue(q) == { q[i] : i \in 1..Len(q) }

\* step 1b has been through the whole registry
Step1bOver == pc \notin {"step1a", "step1b"} /\ hist.err_pc # "step1a"

\* C12 (cross-section reference forces the long form once): a span whose
\* value is relative is never on QA or QB and never has Expand called for it
\* a second time; it is INACTIVE exactly when its one Expand call was made,
\* that call was made in step 1b with new_val = LONG_MAX, and it was made
\* for every such span by the end of step 1b.
C12_RelativeExpandedOnce ==
    \A sid \in 1..Len(spans) :
        spans[sid].depval.rel =>
            /\ sid \notin InQueue(QA) \cup InQueue(QB)
            /\ spans[sid].active # "ON_Q"
            /\ sid \notin hist.again
            /\ sid \in hist.once <=> spans[sid].active = "INACTIVE"
            /\ sid \in hist.once => (sid \in hist.early /\ spans[sid].new_val = LONG_MAX)
            /\ Step1bOver => sid \in hist.once

\* step 2 has expanded a span and returned, in an object with a jump to an
\* external symbol that step 1b forced long
C12_Witness ==
    /\ pc = "done"
    /\ Late # {}
    /\ \E sid \in 1..Len(spans) :
          /\ spans[sid].depval.rel
          /\ spans[sid].active = "INACTIVE"
          /\ bcs[spans[sid].bc].len = JmpLongLen

\* the walk of the span just expanded has passed exactly the first
\* offset-setter behind the span's bytecode, and that setter has absorbed
\* the growth completely
AbsorbedByFirst ==
    /\ walk.sid # 0
    /\ walk.os = spans[walk.sid].os_index + 1
    /\ ~walk.in_os
    /\ walk.offset_diff = 0

\* the bytecodes behind the setter that absorbed, in its container
BehindSetter ==
    { h \in 1..N : /\ h > offset_setters[walk.os].bc
                   /\ Container(prog, h) = Container(prog, offset_setters[walk.os].bc) }

\* C13 (alignment absorbs growth): when the first offset-setter behind a
\* bytecode expanded in step 2 has absorbed the growth completely, the walk
\* stops there: no offset-setter and no length is modified; and when this was
\* the only expansion of step 2, step 3 leaves every bytecode behind that
\* setter at the offset it had before the expansion.
C13_AbsorbedGrowthStops ==
    [][/\ (pc = "absorb" /\ AbsorbedByFirst) =>
              (pc' = "step2" /\ offset_setters' = offset_setters /\ bcs' = bcs)
       /\ (pc = "step3" /\ AbsorbedByFirst /\ Late = {walk.sid}
                        /\ walk.sid \in hist.once) =>
              \A h \in BehindSetter : bcs'[h].offset = bcs[h].offset]_vars

\* Optimize has returned after a single expansion in step 2 that the first
\* alignment behind it absorbed, a second alignment standing further behind
C13_Witness ==
    /\ pc = "done"
    /\ errs = <<>>
    /\ AbsorbedByFirst
    /\ Late = {walk.sid}
    /\ walk.sid \in hist.once
    /\ walk.os + 1 < Len(offset_setters)
    /\ Container(prog, offset_setters[walk.os + 1].bc) = Container(prog, spans[walk.sid].bc)
    /\ bcs[spans[walk.sid].bc].len = JmpLongLen

\* the spans of id > 0 that exceeded their thresholds under the minimum
\* layout: the ones step 1b called Expand for
EarlyJumps == { sid \in hist.early : spans[sid].id > 0 }

\* no offset-setter stands behind bytecode h in its section
NoSetterBehind(h) ==
    \A g \in (h + 1)..N : Container(prog, g) = Container(prog, h) => ~IsOffsetSetting(prog[g])

\* every bytecode behind h in its section has moved by the growth of h
\* since step 1a, and no other bytecode has changed its length
ShiftedBehind(h) ==
    /\ \A g \in (h + 1)..N :
          Container(prog, g) = Container(prog, h) =>
              bcs[g].offset = hist.min[g].offset + (bcs[h].len - hist.min[h].len)
    /\ \A g \in 1..N : g # h => bcs[g].len = hist.min[g].len

\* C14 (single forward expansion): Optimize has returned without error,
\* exactly one span of id > 0 exceeded its thresholds under the minimum
\* layout and no offset-setter follows its bytecode: exactly one Expand call
\* was made, every later bytecode of the section is at its step-1a offset
\* plus the growth, and no other length has changed.
C14_SingleExpansion ==
    (pc = "done" /\ errs = <<>>) =>
        \A sid \in EarlyJumps :
            (EarlyJumps = {sid} /\ NoSetterBehind(spans[sid].bc)) =>
                /\ hist.once = {sid}
                /\ hist.again = {}
                /\ ShiftedBehind(spans[sid].bc)

\* C14 as amended: the same under the further conditions that no span of
\* id <= 0 has Expand called for it in step 1b and that step 1d, when it
\* re-evaluates the remaining spans against the refreshed offsets, finds
\* none of them over its thresholds.
C14_SingleExpansionSettled ==
    (pc = "done" /\ errs = <<>>) =>
        \A sid \in EarlyJumps :
            (hist.early = {sid} /\ hist.queued = {} /\ NoSetterBehind(spans[sid].bc)) =>
                /\ hist.once = {sid}
                /\ hist.again = {}
                /\ ShiftedBehind(spans[sid].bc)

\* Optimize has returned after one Expand call, made in step 1b for a jump
\* to a label of its section, another jump staying short behind it
C14_Witness ==
    /\ pc = "done"
    /\ errs = <<>>
    /\ hist.queued = {}
    /\ \E sid \in hist.early :
          /\ hist.early = {sid}
          /\ spans[sid].id > 0
          /\ ~spans[sid].depval.rel
          /\ NoSetterBehind(spans[sid].bc)
          /\ bcs[spans[sid].bc].len = JmpLongLen
          /\ \E g \in (spans[sid].bc + 1)..N : prog[g].kind = "jmp" /\ bcs[g].len = JmpShortLen

\* the lengths and offsets of the bytecodes b
Layout(b) == [h \in 1..Len(b) |-> [len |-> b[h].len, offset |-> b[h].offset]]

C17_QueueTyping ==
    /\ \A i \in 1..Len(QA) : spans[QA[i]].id <= 0
    /\ \A i \in 1..Len(QB) : spans[QB[i]].id > 0


\* C18 (QA priority) QB loses a span only in a state where QA is empty, and
\* while QA is non-empty a step-2 pop takes the front of QA, which is the
\* span then expanded
C18_QAPriority ==
    [][ /\ Len(QB') < Len(QB) => QA = <<>>
        /\ (pc = "step2" /\ QA # <<>> /\ (QA' # QA \/ QB' # QB)) =>
               (QA' = Tail(QA) /\ QB' = QB)
        /\ (pc = "step2" /\ QA # <<>> /\ pc' = "ripple") =>
               walk'.sid = Head(QA) ]_vars

\* a span taken from QA has been expanded while QB held a span waiting
C18_Witness ==
    /\ pc = "ripple"
    /\ ~walk.in_os
    /\ spans[walk.sid].id <= 0
    /\ QB # <<>>
    /\ \A i \in 1..Len(QB) : spans[QB[i]].id > 0


\* C19 (INACTIVE is terminal) once a span is INACTIVE no step makes it
\* ACTIVE or ON_QUEUE again, pushes it onto QA or QB, or changes the value
\* of any of its terms
C19_InactiveTerminal ==
    [][ \A sid \in 1..Len(spans) :
          spans[sid].active = "INACTIVE" =>
              /\ spans'[sid].active = "INACTIVE"
              /\ spans'[sid].terms = spans[sid].terms
              /\ sid \in InQueue(QA') => sid \in InQueue(QA)
              /\ sid \in InQueue(QB') => sid \in InQueue(QB) ]_vars

\* ExpandTerm has been called for a term of an inactive span, and step 2
\* has gone on to its next pop
C19_Witness ==
    /\ pc = "step2"
    /\ hist.frozen
    /\ \E sid \in 1..Len(spans) : spans[sid].active = "INACTIVE"


\* the errors recorded for bytecode h say that its origin is overrun
OrgOverlapRecorded(h) ==
    \E k \in 1..Len(errs) :
        /\ errs[k].line = h
        /\ errs[k].msg = "ORG overlap with already existing data"

\* C20 (overflow-free absorption) the assertion "org/align went to negative
\* offset" never fails: whenever the walk is about to add offset_diff to an
\* offset-setter, offset_diff is not negative beyond the setter's new_val
\* (it is never negative at all); and an origin the walk has pushed beyond
\* its start has an error on record
C20_AbsorptionSafe ==
    /\ pc # "assert"
    /\ (pc = "absorb" /\ AbsorbCond(prog, offset_setters, walk, spans[walk.sid].bc)) =>
           /\ AbsorbAssert(walk.offset_diff, offset_setters[walk.os + 1].new_val)
           /\ walk.offset_diff >= 0
    /\ \A i \in 1..Len(offset_setters) :
           (/\ offset_setters[i].bc # 0
            /\ prog[offset_setters[i].bc].kind = "org"
            /\ offset_setters[i].new_val > prog[offset_setters[i].bc].arg) =>
               OrgOverlapRecorded(offset_setters[i].bc)

\* the walk of step 2 has pushed an origin beyond its start and the error
\* is on record
C20_Witness ==
    /\ hist.err_pc = "step2"
    /\ \E i \in 1..Len(offset_setters) :
           /\ offset_setters[i].bc # 0
           /\ prog[offset_setters[i].bc].kind = "org"
           /\ offset_setters[i].new_val > prog[offset_setters[i].bc].arg
           /\ OrgOverlapRecorded(offset_setters[i].bc)


\* the positions of the symbols whose finalization fails
Failing == { i \in 1..Len(m_symbols) :
               /\ ~undef_extern
               /\ m_symbols[i].used
               /\ ~m_symbols[i].defined
               /\ ~m_symbols[i].declared }

\* the positions in the sink, behind what it held before, of the entries
\* recorded for symbol i
ErrorsOf(i) == { k \in (Len(errwarns0) + 1)..Len(errwarns) : errwarns[k].sym = i }

\* C21 (one error per undefined symbol) when FinalizeSymbols returns every
\* symbol of the list has been finalized, every symbol whose finalization
\* failed has exactly one error on record, at its use line, and no other
\* symbol has any
C21_OneErrorPerSymbol ==
    fs_pc = "done" =>
        /\ \A i \in 1..Len(m_symbols) : m_symbols[i].final
        /\ \A i \in Failing :
               /\ Cardinality(ErrorsOf(i)) = 1
               /\ \A k \in ErrorsOf(i) : /\ errwarns[k].line = m_symbols[i].use_line
                                         /\ errwarns[k].msg = UndefinedMsg
        /\ \A i \in (1..Len(m_symbols)) \ Failing : ErrorsOf(i) = {}

\* FinalizeSymbols has returned from a list in which a failing symbol is
\* followed by another failing symbol and by one that does not fail
C21_Witness ==
    /\ fs_pc = "done"
    /\ \E i, j, k \in 1..Len(m_symbols) :
           /\ i < j
           /\ i < k
           /\ i \in Failing
           /\ j \in Failing
           /\ k \notin Failing

\* the positions in the sink of the closing message
Closings == { k \in 1..Len(errwarns) : errwarns[k].msg = ClosingMsg }

\* C22 (closing message) when FinalizeSymbols returns the closing message
\* is on record exactly once, at the least use line of the failing symbols,
\* if some symbol failed; if none failed the sink is as it was handed in
C22_ClosingMessage ==
    fs_pc = "done" =>
        IF Failing # {}
        THEN /\ Cardinality(Closings) = 1
             /\ \A k \in Closings :
                    /\ k = Len(errwarns)
                    /\ \A i \in Failing : errwarns[k].line <= m_symbols[i].use_line
                    /\ \E i \in Failing : errwarns[k].line = m_symbols[i].use_line
        ELSE errwarns = errwarns0

\* FinalizeSymbols has returned from a list whose failing symbols have
\* different use lines, the later line first
C22_Witness ==
    /\ fs_pc = "done"
    /\ Closings # {}
    /\ \E i, j \in Failing : i < j /\ m_symbols[i].use_line > m_symbols[j].use_line

\* no symbol failed and the sink that was handed in was not empty
C22_WitnessNone ==
    /\ fs_pc = "done"
    /\ Failing = {}
    /\ errwarns0 # <<>>
    /\ \E i \in 1..Len(m_symbols) : m_symbols[i].used /\ ~m_symbols[i].defined


RECURSIVE PatternLE(_, _, _)
\* the number the n bytes behind position pos spell, least significant first
PatternLE(data, pos, n) ==
    IF n = 0 THEN 0 ELSE data[pos + 1] + ByteMod * PatternLE(data, pos + 1, n - 1)

RECURSIVE PatternBE(_, _, _)
\* the number the n bytes behind position pos spell, most significant first
PatternBE(data, pos, n) ==
    IF n = 0 THEN 0 ELSE PatternBE(data, pos, n - 1) * ByteMod + data[pos + n]

\* the unsigned value of the n bytes the last Read call has read
Pattern(n) ==
    IF bytes.big_endian THEN PatternBE(bytes.data, call.pos, n)
    ELSE PatternLE(bytes.data, call.pos, n)

\* its two's-complement signed interpretation
TwosComplement(n) ==
    IF Pattern(n) >= TypeMod(n) \div 2 THEN Pattern(n) - TypeMod(n) ELSE Pattern(n)

\* C23 (signed reads) ReadS8, ReadS16 and ReadS32 return the two's-complement
\* signed interpretation of the 1, 2 or 4 bytes read, in both byte orders
\* and whatever the width of long
C23_SignedReads ==
    /\ call.op = "ReadS8" => (~call.trap /\ call.ret = TwosComplement(1))
    /\ call.op = "ReadS16" => (~call.trap /\ call.ret = TwosComplement(2))
    /\ call.op = "ReadS32" => (~call.trap /\ call.ret = TwosComplement(4))

\* C24 (write/read round trip) ReadU16 of the bytes of Write16(v)
\* returns v, ReadU32 of the bytes of Write32(v) returns
\* v mod 2^32, and the bytes of the write are in the buffer most significant
\* first when it is big-endian and least significant first otherwise
C24_RoundTrip ==
    /\ (wrote.n = 2 /\ call.op = "ReadU16" /\ call.pos = 0) => call.ret = wrote.val
    /\ (wrote.n = 4 /\ call.op = "ReadU32" /\ call.pos = 0) =>
           call.ret = wrote.val % TypeMod(4)
    /\ wrote.n \in {2, 4} =>
           wrote.val % TypeMod(wrote.n) =
               IF bytes.big_endian THEN PatternBE(bytes.data, 0, wrote.n)
               ELSE PatternLE(bytes.data, 0, wrote.n)

\* a value with different bytes, too wide for 32 bits, has been written to
\* a big-endian buffer with Write32 and read back with ReadU32
C24_Witness ==
    /\ wrote.n = 4
    /\ wrote.val >= TypeMod(4)
    /\ call.op = "ReadU32"
    /\ call.pos = 0
    /\ bytes.big_endian
    /\ bytes.data[1] # bytes.data[4]

\* a 16-bit value with different bytes has been written to a little-endian
\* buffer with Write16 and read back with ReadU16
C24_WitnessShort ==
    /\ wrote.n = 2
    /\ call.op = "ReadU16"
    /\ call.pos = 0
    /\ ~bytes.big_endian
    /\ bytes.data[1] # bytes.data[2]


RECURSIVE LineStart(_, _)
\* the position in out of the first character of line k
LineStart(out, k) ==
    IF k = 1 THEN 1
    ELSE LET p == LineStart(out, k - 1)
             e == CHOOSE i \in p..Len(out) :
                      out[i] = "\n" /\ \A j \in p..(i - 1) : out[j] # "\n"
         IN  e + 1

RECURSIVE Spaces(_, _)
\* the number of spaces in out from position p on
Spaces(out, p) ==
    IF p > Len(out) \/ out[p] # " " THEN 0 ELSE 1 + Spaces(out, p + 1)

\* C25 (margin stream indentation) every line written begins with two
\* spaces per level the stream had when the line was begun, followed by the
\* text; ++os raises the level by one and the matching --os brings back
\* the level the ++os was applied at, so that a balanced sequence of them
\* leaves the indentation as it was
C25_Indentation ==
    /\ Len(marg_hist.opened) = marg.level
    /\ \A i \in 1..Len(marg_hist.opened) : marg_hist.opened[i] = i - 1
    /\ Len(marg_hist.marks) = Begun(marg)
    /\ \A k \in 1..Len(marg_hist.marks) :
           /\ Spaces(marg.out, LineStart(marg.out, k)) = 2 * marg_hist.marks[k]
           /\ marg.out[LineStart(marg.out, k) + 2 * marg_hist.marks[k]] = "a"

\* the first three lines of the unit test: a line at level 0, a line after
\* one ++os, a line after two, and the stream back at level 0
C25_Witness ==
    /\ marg.out = << "a", "\n", " ", " ", "a", "\n", " ", " ", " ", " ", "a", "\n" >>
    /\ marg.level = 0
    /\ marg_hist.marks = << 0, 1, 2 >>

\* The new value the documentation gives a span s: 0 without an absolute
\* part, LONG_MAX for a relative value or one that is not an integer, and
\* otherwise the absolute expression with the terms' new distances put in.
SubstitutedValue(s) ==
    IF s.depval.rel \/ (s.depval.hasAbs /\ s.depval.cplx) THEN LONG_MAX
    ELSE IF ~s.depval.hasAbs THEN 0
    ELSE s.depval.k + SumNew(s.terms, Len(s.terms))

\* C26: Span::RecalcNormal returns true exactly when, for a span of id <= 0,
\* the new value differs from cur_val and, for a span of id > 0, the new
\* value is below neg_thres or above pos_thres; the new value is the one it
\* stores in the span.
C26_RecalcReturn ==
    rn_call.done =>
        LET s  == rn_call.before
            nv == SubstitutedValue(s)
        IN  /\ rn_span.new_val = nv
            /\ rn_call.ret = IF s.id <= 0 THEN nv # s.cur_val
                             ELSE nv < s.neg_thres \/ nv > s.pos_thres

\* RecalcNormal has returned true for a span of id <= 0 whose term, at a
\* distance other than 0, moved the value below cur_val
C26_Witness ==
    /\ rn_call.done
    /\ rn_call.ret
    /\ rn_call.before.id <= 0
    /\ ~rn_call.before.depval.rel
    /\ ~rn_call.before.depval.cplx
    /\ Len(rn_call.before.terms) = 1
    /\ rn_call.before.terms[1].new_val # 0
    /\ rn_span.new_val < rn_call.before.cur_val

\* the value of span s is relative or does not reduce to a concrete integer
TooComplex(s) == s.depval.rel \/ (s.depval.hasAbs /\ s.depval.cplx)

\* C27: RecalcNormal sets new_val to LONG_MAX and the state to INACTIVE
\* exactly when the substituted expression is not a concrete integer or the
\* value is relative; for a non-relative value that evaluates to an integer
\* the state is left as it was.
C27_LongSentinel ==
    rn_call.done =>
        LET s == rn_call.before
        IN  /\ TooComplex(s) <=>
                  (rn_span.new_val = LONG_MAX /\ rn_span.active = "INACTIVE")
            /\ ~TooComplex(s) => rn_span.active = s.active

\* the spans held by a backtrace
InTrace(bt) == { bt[i] : i \in 1..Len(bt) }

\* the nodes of id <= 0 spans the running Enumerate has still to call back for
PendingDeps == { e \in pending : spans[e.sid].id <= 0 }

\* this step is a CheckCycle callback that returned, for node e
CycleReturned(e) ==
    /\ pc = "cycle"
    /\ in_enum
    /\ pc' = "cycle"
    /\ errs' = errs
    /\ e \in PendingDeps
    /\ pending' = pending \ {e}

\* this step is a CheckCycle callback that threw
CycleRaised ==
    /\ pc = "cycle"
    /\ in_enum
    /\ errs' # errs

\* C28: when CheckCycle has processed the span S being visited and a
\* dependent span D of id <= 0 without raising, D's backtrace holds S and
\* every span of S's backtrace.
C28_BacktracePropagation ==
    [][\A e \in pending :
          CycleReturned(e) =>
              /\ m_spans[cur] \in InTrace(spans'[e.sid].backtrace)
              /\ InTrace(spans[m_spans[cur]].backtrace)
                    \subseteq InTrace(spans'[e.sid].backtrace)]_vars

\* C29: in step 1e, for the span S being visited and a dependent id <= 0
\* span D, "circular reference detected" is raised exactly when S already
\* is in D's backtrace.
C29_CycleTestDirection ==
    [][/\ CycleRaised =>
             \E e \in PendingDeps :
                 m_spans[cur] \in InTrace(spans[e.sid].backtrace)
       /\ \A e \in pending :
             CycleReturned(e) =>
                 m_spans[cur] \notin InTrace(spans[e.sid].backtrace)]_vars

\* C29 as amended: the error is raised exactly when D already is in the
\* backtrace of S.
C29_CycleTestOnOwnBacktrace ==
    [][/\ CycleRaised =>
             \E e \in PendingDeps :
                 e.sid \in InTrace(spans[m_spans[cur]].backtrace)
       /\ \A e \in pending :
             CycleReturned(e) =>
                 e.sid \notin InTrace(spans[m_spans[cur]].backtrace)]_vars

\* step 1e has raised the error for a span whose backtrace held the
\* dependent span, and another callback of the run returned without it
C29_Witness ==
    /\ hist.err_pc = "step1e"
    /\ \E k \in 1..Len(errs) : errs[k].msg = Circular
    /\ \E a \in Registered, b \in Registered :
          /\ a # b
          /\ b \in InTrace(spans[a].backtrace)
          /\ a \notin InTrace(spans[b].backtrace)
          /\ HasError(spans[a].bc, Circular)

\* every term of every span that is not INACTIVE holds, as its new value, the
\* distance loc2 - loc recomputed from the offsets of the bytecodes
TermsAgree ==
    \A sid \in Registered :
        spans[sid].active # "INACTIVE" =>
            \A i \in 1..Len(spans[sid].terms) :
                spans[sid].terms[i].new_val =
                    CalcDist(bcs, spans[sid].terms[i].loc, spans[sid].terms[i].loc2)

\* C30: after an error-free step 2 followed by step 3, the new value of every
\* term of every span that is not INACTIVE is the signed distance loc2 - loc1
\* recomputed from the final bytecode offsets.
C30_DistancesAgree ==
    [][(pc = "step3" /\ pc' = "done" /\ errs' = <<>>) => TermsAgree']_vars

\* the smaller and the larger of two bytecode indices
MinIndex(a, b) == IF a < b THEN a ELSE b

MaxIndex(a, b) == IF a < b THEN b ELSE a

\* the entries of the interval tree that hold term i of span sid
NodesOf(sid, i) == { e \in itree : e.sid = sid /\ e.term = i }

\* the tree holds, for every term of every registered span whose locations
\* lie in two bytecodes, one node under [min + 1, max], and nothing else
TreeAsDocumented ==
    /\ \A sid \in Registered : \A i \in 1..Len(spans[sid].terms) :
          LET i1 == bcs[spans[sid].terms[i].loc.bc].index
              i2 == bcs[spans[sid].terms[i].loc2.bc].index
          IN  IF i1 = i2 THEN NodesOf(sid, i) = {}
              ELSE NodesOf(sid, i) =
                      { [low |-> MinIndex(i1, i2) + 1, high |-> MaxIndex(i1, i2),
                         sid |-> sid, term |-> i] }
    /\ \A e \in itree : e.sid \in Registered /\ e.term \in 1..Len(spans[e.sid].terms)

\* C31: step 1e inserts each term of each surviving span into the interval
\* tree exactly once, under [min(index1, index2) + 1, max(index1, index2)],
\* and inserts nothing for a term whose two locations lie in one bytecode.
C31_TermInterval ==
    [][(pc = "step1e" /\ pc' = "cycle") => TreeAsDocumented']_vars

\* step 1e has built a tree with a forward and a backward term in it and
\* has left out a term whose two locations lie in one bytecode
C31_Witness ==
    /\ pc = "cycle"
    /\ \E e \in itree : spans[e.sid].terms[e.term].loc.bc < spans[e.sid].terms[e.term].loc2.bc
    /\ \E e \in itree : spans[e.sid].terms[e.term].loc.bc > spans[e.sid].terms[e.term].loc2.bc
    /\ \E sid \in Registered : \E i \in 1..Len(spans[sid].terms) :
          /\ spans[sid].terms[i].loc.bc = spans[sid].terms[i].loc2.bc
          /\ NodesOf(sid, i) = {}

\* the span step 2 pops next
Front == IF QA # <<>> THEN Head(QA) ELSE Head(QB)

\* span s, recomputed, reports no crossing: its value lies inside the
\* thresholds or, for id <= 0, is cur_val again
NoCrossing(s) ==
    LET nv == SubstitutedValue(s)
    IN  IF s.id <= 0 THEN nv = s.cur_val
        ELSE nv >= s.neg_thres /\ nv <= s.pos_thres

\* this step pops a queued span that reports no crossing any more
PopsStale ==
    /\ pc = "step2"
    /\ QA # <<>> \/ QB # <<>>
    /\ QA' # QA \/ QB' # QB
    /\ spans[Front].active = "ON_Q"
    /\ NoCrossing(spans[Front])

\* C32: a span popped in step 2 whose RecalcNormal no longer reports a
\* crossing is not expanded: the length of its bytecode, its thresholds and
\* its cur_val are unchanged and its state is left ACTIVE.
C32_StaleFiltered ==
    [][PopsStale =>
          /\ bcs' = bcs
          /\ spans'[Front].neg_thres = spans[Front].neg_thres
          /\ spans'[Front].pos_thres = spans[Front].pos_thres
          /\ spans'[Front].cur_val = spans[Front].cur_val
          /\ spans'[Front].active = "ACTIVE"]_vars

\* step 2 has popped and skipped a span that was queued for a crossing
C32_Witness ==
    /\ hist.stale
    /\ \E sid \in hist.queued \cup Registered :
          /\ spans[sid].active = "ACTIVE"
          /\ NoCrossing(spans[sid])

\* the spans created and no longer in the registry
Deleted == { sid \in DOMAIN spans : sid \notin Registered }

\* this step is the iteration of step 1b for span sid, and the expand it
\* calls reports that the bytecode no longer depends on the span
Step1bReportsDone(sid) ==
    /\ pc = "step1b"
    /\ sid \in hist'.early \ hist.early
    /\ ~Expand(prog[spans[sid].bc], bcs[spans[sid].bc].len, spans[sid].id,
               spans[sid].cur_val, spans'[sid].new_val,
               spans[sid].neg_thres, spans[sid].pos_thres).still

\* a deleted span is on no queue and has no term in the interval tree
DeletedUnused ==
    \A sid \in Deleted :
        /\ \A i \in 1..Len(QA) : QA[i] # sid
        /\ \A i \in 1..Len(QB) : QB[i] # sid
        /\ \A e \in itree : e.sid # sid

\* a deleted span stays deleted and is not evaluated again
DeletedUntouched ==
    \A sid \in Deleted : sid \notin Registered' /\ spans'[sid] = spans[sid]

\* C33: a span whose expand in step 1b reports no further dependence is
\* removed from the registry; it is not evaluated again in step 1d, none of
\* its terms is inserted into the interval tree and it is never on QA or QB.
C33_DeletedInStep1b ==
    [][/\ \A sid \in Registered : Step1bReportsDone(sid) => sid \notin Registered'
       /\ DeletedUntouched
       /\ DeletedUnused']_vars

\* C33 as amended: the span is removed when no error is on record after the
\* expand call.
C33_DeletedUnlessError ==
    [][/\ \A sid \in Registered :
             (Step1bReportsDone(sid) /\ errs' = <<>>) => sid \notin Registered'
       /\ DeletedUntouched
       /\ DeletedUnused']_vars

\* step 1b has deleted a span, another span went through step 1d, the tree
\* and a queue, and Optimize has returned
C33_Witness ==
    /\ pc = "done"
    /\ Deleted \cap hist.early # {}
    /\ hist.queued # {}
    /\ itree # {}
    /\ walk.sid # 0

\* the offset-setter chain[k] stands behind a bytecode of lower index than h
SetterBefore(k, h) ==
    /\ offset_setters[k].bc # 0
    /\ bcs[offset_setters[k].bc].index < bcs[h].index

\* C34: for every span, offset_setters[os_index] is the first offset-setter
\* of the chain whose bytecode comes after the span's bytecode (the trailing
\* placeholder when none was registered later), and every offset-setter at a
\* lower position belongs to a bytecode before the span's bytecode.
C34_OsIndex ==
    \A sid \in DOMAIN spans :
        LET k == spans[sid].os_index + 1
            h == spans[sid].bc
        IN  /\ k \in 1..Len(offset_setters)
            /\ IF offset_setters[k].bc = 0 THEN k = Len(offset_setters)
               ELSE bcs[offset_setters[k].bc].index > bcs[h].index
            /\ \A j \in 1..(k - 1) : SetterBefore(j, h)

\* a span stands between two registered offset-setters, the later of which
\* is the one at its os_index
C34_Witness ==
    /\ pc = "done"
    /\ \E sid \in DOMAIN spans :
          /\ spans[sid].os_index = 1
          /\ SetterBefore(1, spans[sid].bc)
          /\ offset_setters[2].bc # 0
          /\ bcs[offset_setters[2].bc].index > bcs[spans[sid].bc].index

\* C35: after step 1a the indices of the bytecodes of all sections, head
\* bytecodes included, are pairwise distinct, make up exactly {0, ..., N-1}
\* and increase in section order and, inside a section, in bytecode order.
C35_DenseIndices ==
    pc # "step1a" =>
        /\ \A g, h \in 1..N : g # h => bcs[g].index # bcs[h].index
        /\ { bcs[h].index : h \in 1..N } = 0..(N - 1)
        /\ \A g, h \in 1..N : g < h => bcs[g].index < bcs[h].index

\* step 1a has numbered an object of two sections
C35_Witness ==
    /\ pc # "step1a"
    /\ \E h \in 2..N : prog[h].kind = "head" /\ bcs[h].index = bcs[h - 1].index + 1
    /\ bcs[N].index = N - 1

\* C36: no span with id <= 0 is ever registered for a bytecode classified as
\* offset-setting: step 1a rejects such a registration and the span is not
\* carried into steps 1b to 2.
C36_NoTimesOnOffsetSetter ==
    \A sid \in DOMAIN spans :
        ~(spans[sid].id <= 0 /\ IsOffsetSetting(prog[spans[sid].bc]))

\* C37: when step 1d ends with QB empty, Optimize returns at once, without
\* step 1e, step 2 or step 3, and the layout it returns with is the lengths
\* of step 1b at the offsets step 1c gave them: step 1d and the return leave
\* the bytecodes as they are, and the offsets are those a refresh computes
\* for these lengths.
C37_EarlyReturn ==
    [][ /\ pc = "step1d" => bcs' = bcs
        /\ (pc = "step1d" /\ cur > Len(m_spans) /\ QB = <<>>) =>
               /\ pc' = "done"
               /\ bcs = UpdateBytecodeOffsets(prog, bcs, errs).bcs ]_vars

\* Optimize has returned after step 1d: no error, a span survived step 1b
\* and was not queued, and step 1b had changed some bytecode's length
C37_Witness ==
    /\ pc = "done"
    /\ errs = <<>>
    /\ m_spans # <<>>
    /\ hist.queued = {}
    /\ \E h \in 1..N : bcs[h].len # hist.min[h].len

\* the number of places span sid takes in queue q
Occurrences(q, sid) == Cardinality({i \in 1..Len(q) : q[i] = sid})

FromStep1d ==
    pc \in {"step1d", "step1e", "cycle", "step2", "ripple", "absorb", "step3", "done"}

\* C38: from step 1d on, a span's state is ON_Q exactly when the span is in
\* QA or QB, and no span takes more than one place in QA and QB together.
C38_QueueMembership ==
    FromStep1d =>
        \A sid \in DOMAIN spans :
            /\ spans[sid].active = "ON_Q" <=>
                   Occurrences(QA, sid) + Occurrences(QB, sid) > 0
            /\ Occurrences(QA, sid) + Occurrences(QB, sid) <= 1

\* step 2 is under way with one span on QA, another on QB and a third that
\* was queued by step 1d and has been popped since
C38_Witness ==
    /\ pc \in {"step2", "ripple"}
    /\ QA # <<>>
    /\ QB # <<>>
    /\ \E sid \in hist.queued : spans[sid].active # "ON_Q"

\* the offsets of the bytecodes
Offsets(b) == [h \in 1..Len(b) |-> b[h].offset]

\* every registered offset-setter holds, as both of its values, the offset
\* the refresh of step 3 gives its bytecode
SettersAgree ==
    LET u == UpdateBytecodeOffsets(prog, bcs, errs)
    IN  \A k \in 1..Len(offset_setters) :
            offset_setters[k].bc # 0 =>
                /\ offset_setters[k].cur_val = offset_setters[k].new_val
                /\ offset_setters[k].new_val = u.bcs[offset_setters[k].bc].offset

\* C39: when step 2 ends without an error, every registered offset-setter
\* has cur_val = new_val, equal to the offset step 3 assigns to the setter's
\* bytecode; step 2 itself writes no bytecode offset.
C39_SettersAgree ==
    [][ /\ PhaseOf(pc) = "step2" => Offsets(bcs') = Offsets(bcs)
        /\ (PhaseOf(pc) = "step2" /\ pc' = "step3") => SettersAgree' ]_vars

\* step 2 has ended without an error after moving an offset-setter
C39_Witness ==
    /\ pc = "step3"
    /\ \E k \in 1..Len(offset_setters) :
           /\ offset_setters[k].bc # 0
           /\ offset_setters[k].new_val # bcs[offset_setters[k].bc].offset

\* C40: m_last_gap is true only if the container's last bytecode holds gap
\* contents, so the extend path never casts anything else; the append_gap
\* calls made with no new bytecode in between have made one gap bytecode, the
\* last one, whose size is the sum of the sizes asked for; and the first
\* append_gap after an append makes a gap of a bytecode that held no
\* contents before.
C40_GapMerging ==
    /\ m_last_gap => m_bcs[Len(m_bcs)].contents = "gap"
    /\ ~gap_run.cast
    /\ gap_run.calls > 0 =>
           /\ m_last_gap
           /\ gap_run.at = Len(m_bcs)
           /\ gap_run.over = "none"
           /\ m_bcs[Len(m_bcs)].m_size = gap_run.sum

============================================================================
